---- MODULE Spec2Model ----
(***************************************************************************)
(* ipcIO (src/ipcio.js): one IpcServer and the IpcClient instances of its  *)
(* domain, with the two socket layers between them.                        *)
(*                                                                         *)
(* Values.  JavaScript null is Null, undefined is Undef.  A frame's data   *)
(* is a JSON value, written here as its JSON text ("0", "false", "\"\"",   *)
(* "\"HI\"", ...), or the JSON text of an encoded inner frame (JsonFrame), *)
(* whose fields the frame then carries in "inner".                         *)
(*                                                                         *)
(* Sockets.  A Unix stream socket is a pair of FIFO channels, keyed by    *)
(* the uuid the server gave the connection.  A data event carries one     *)
(* frame.  A transport failure is noticed by the client first (its        *)
(* error/close handler runs); the server reads what is left in the        *)
(* channel and then gets its close event.                                 *)
(***************************************************************************)
EXTENDS Integers, Sequences, FiniteSets, TLC

\* ---------------------------------------------------------------- bounds
MaxUuid == 3        \* rendezvous connections the server accepts in a run
MaxDrops == 2       \* transport failures in a run
MaxCalls == 3       \* application calls that enqueue a frame, in a run
MaxDeliveries == 1  \* deliver() calls in a run
QueueDrops == 1     \* transport failures in a run of the queue scenario
QueueCalls == 2     \* enqueueing calls in a run of the queue scenario
RelayCalls == 3     \* enqueueing calls in a run of the relay scenario
DispatchCalls == 2
EmitCalls == 2
DiscoverCalls == 3
ServerCalls == 2
RawWrites == 2
MaxFrames == 2        \* codec: frames in a stream
FrameBytes == 3       \* codec: pieces an encoded frame can be cut into
DeliveryCalls == 2    \* enqueueing calls in a run of the delivery scenario
MaxReplies == 4       \* queue entries in a run of the delivery scenario

\* ------------------------------------------------------------- constants
COMMAND_HANDSHAKE == "handshake"
COMMAND_DISCOVER == "discover"
COMMAND_BROADCAST == "broadcast"
COMMAND_EMIT == "emit"
COMMAND_DELIVER == "delivery"
COMMAND_ERROR == "error"
E_MESSAGE_NOT_JSON == 101
E_MESSAGE_NOT_ARRAY == 102
E_CLIENT_NAME_TAKEN == 201

Null == "null"
Undef == "undef"
JsonFrame == "{frame}"   \* data that is the JSON text of an encoded frame

Clients == {"c1", "c2"}            \* IpcClient instances
Names == {"a", "b"}                \* friendly names passed as options.name
UuidName == <<"u1", "u2", "u3", "u4", "u5", "u6">>
Uuids == {UuidName[i] : i \in 1..MaxUuid}
DeliveryName == <<"d1", "d2", "d3", "d4">>
Payload == <<"\"m1\"", "\"m2\"", "\"m3\"", "\"m4\"", "\"m5\"", "\"m6\"">>
Commands == {"ping", "nop"}        \* application commands in use
\* what a peer that builds its own frames may put where an envelope's inner
\* frame belongs: null, a number, text that is no JSON
BadData == {Null, "7", "\"HI\""}
\* what a handler may return: nothing, null, 0, "HI"
RetValues == {Undef, Null, "0", "\"HI\""}
\* a handler may return a promise that is pending when it returns
Promise == "promise"
\* a handler may also throw
Throw == "throw"
Outcomes == RetValues \cup {Throw}

\* ------------------------------------------------------------------ codec
\* JavaScript's falsy values, among those a frame field can hold.
Falsy == {Null, Undef, "0", "false", "\"\"", ""}

OrNull(x) == IF x \in Falsy THEN Null ELSE x

NoInner == [id |-> Null, command |-> Null, data |-> Null, delivery |-> Null]

\* (x === null || x === undefined) ? null : x.toString()
ToStr(x) == IF x \in {Null, Undef} THEN Null ELSE x

\* JSON.stringify of a frame's data: a promise has no enumerable property
\* of its own and becomes {}.
stringify(data) == IF data = Promise THEN "{}" ELSE data

prepareMsg4(id, command, data, delivery) ==
  [id |-> ToStr(id), command |-> ToStr(command), data |-> stringify(data),
   delivery |-> delivery, inner |-> NoInner]

prepareMsg3(id, command, data) == prepareMsg4(id, command, data, Null)

prepareMsg2(command, data) == prepareMsg4(Null, command, data, Null)

\* prepareMsg(id, command, prepareMsg(...), delivery): the data is the JSON
\* text of the inner frame f.
prepareEnvelope(id, command, f, delivery) ==
  [id |-> ToStr(id), command |-> ToStr(command), data |-> JsonFrame,
   delivery |-> delivery,
   inner |-> [id |-> f.id, command |-> f.command, data |-> f.data,
              delivery |-> f.delivery]]

\* One element of parseMsg's result: every field is "entry.x || null".
parseEntry(f) ==
  [id |-> OrNull(f.id), command |-> OrNull(f.command), data |-> OrNull(f.data),
   delivery |-> OrNull(f.delivery), inner |-> f.inner]

ErrorFrame(code) ==
  [id |-> Null, command |-> COMMAND_ERROR, data |-> ToString(code),
   delivery |-> Null, inner |-> NoInner]

\* parseMsg(message.data)[0]: the inner frame of an envelope.
\* ------------------------------------------------------------ the stream
\* The JSON values a message's data can be: null, 0, false, "", "HI", an
\* array, a nested object.
JsonValues == {Null, "0", "false", "\"\"", "\"HI\"", "[1,[2]]", "{k:{l:1}}"}

\* The messages handed to prepareMsg(id, command, data, delivery).
Messages ==
  [id : {Null, "a"}, command : {Null, "ping"}, data : JsonValues,
   delivery : {Null, DeliveryName[1]}]

\* prepareMsg(m.id, m.command, m.data, m.delivery)
encode(m) == prepareMsg4(m.id, m.command, m.data, m.delivery)

\* The text of an encoded frame, as the FrameBytes pieces a socket may
\* deliver it in.
bytesOf(f) == [i \in 1..FrameBytes |-> [frame |-> f, at |-> i]]

RECURSIVE encodeAll(_)
\* The stream of the frames of ms, written one after the other.
encodeAll(ms) ==
  IF ms = <<>> THEN <<>> ELSE bytesOf(encode(Head(ms))) \o encodeAll(Tail(ms))

\* The text of a read is that of whole frames: "[" + text + "]" is JSON.
wholeFrames(chunk) ==
  /\ Len(chunk) % FrameBytes = 0
  /\ \A i \in DOMAIN chunk : chunk[i].at = ((i - 1) % FrameBytes) + 1

\* parseMsg(buffer) for the buffer of one data event
parseMsg(chunk) ==
  IF wholeFrames(chunk)
  THEN [j \in 1..(Len(chunk) \div FrameBytes) |->
          parseEntry(chunk[(j - 1) * FrameBytes + 1].frame)]
  ELSE <<ErrorFrame(E_MESSAGE_NOT_JSON)>>

\* The data values that are JSON strings: typeof data === "string".
Texts == {JsonFrame, "\"HI\""} \cup {Payload[i] : i \in DOMAIN Payload}

\* parseMsg(message.data) throws its TypeError: the data is no string.
innerThrows(m) == m.data \notin Texts

parseInner(m) ==
  IF m.data = JsonFrame
  THEN [id |-> OrNull(m.inner.id), command |-> OrNull(m.inner.command),
        data |-> OrNull(m.inner.data), delivery |-> OrNull(m.inner.delivery),
        inner |-> NoInner]
  ELSE ErrorFrame(E_MESSAGE_NOT_JSON)

\* -------------------------------------------------------------- variables
VARIABLES
  \* IpcServer
  is_started,          \* _is_started
  name_registry,       \* _name_registry: registered name -> uuid
  uuid_registry,       \* _uuid_registry: uuid -> [name, server, socket]
  delivery_registry,   \* _delivery_registry: delivery id -> originator name
  bcast_registry,      \* bcast_registry[domain]: uuids of rendezvous sockets
  srv_handlers,        \* server._command_handlers: command -> handler
  nextUuid,            \* how many uuids uuidV4() has produced
  \* the sockets
  bcastToSrv, bcastToCli,   \* rendezvous channels, by uuid
  uniqToSrv, uniqToCli,     \* unique channels, by uuid
  uniqConnReq,         \* unique connections requested and not yet accepted
  bcastClosing,        \* rendezvous sockets whose close the server has to see
  uniqClosing,         \* unique sockets whose close the server has to see
  \* IpcClient
  client_name,         \* _client_name
  cli_handlers,        \* client._command_handlers
  is_connecting, is_connected, channel_id,
  bcastSocket, uniqueSocket,    \* "null" | "connecting" | "open"
  bcastPeer,           \* uuid of the client's rendezvous connection
  bcastResolve,        \* the rendezvous socket's callbacks hold connect()'s resolve
  offlinePollingFn,    \* "null" | "armed" | "fired"
  pendingClose,        \* a destroyed socket has its close event to emit
  queue, emptying_queue, writing,           \* unique queue
  bcast_queue, emptying_bcast_queue, bcastWriting,
  is_discovering, deliveries,
  \* observation
  connectPromise,      \* "none" | "pending" | "resolved"
  discoverPromise,     \* "none" | "pending" | "resolved"
  nextDelivery, nextMsg, calls, drops,
  completed,           \* per client and queue: entries whose promise resolved
  wrote,               \* per client and queue: entries put into the channel
  handled,             \* handler invocations, in order
  returned,            \* delivery id -> what the callee's handler returned
  result,              \* delivery id -> what the deliver() promise resolved with
  asked,               \* delivery id -> the callee, and who was connected
  emitted,             \* the emit() calls, in order, and who was connected
  connectError,        \* per client: a connect() call has thrown
  apiError,            \* the calls of start() and addHandler() that have thrown
  plain,               \* codec: the messages a sender encodes
  wire,                \* codec: the encoded bytes the receiver has yet to read
  decoded,             \* codec: the frames the receiver has decoded
  written,             \* frames the server wrote to unique sockets, with origin
  lastError,           \* per client: the last error frame it was sent
  forwards             \* the delivery frames the server has forwarded

srvVars == <<is_started, name_registry, uuid_registry, delivery_registry,
             bcast_registry, srv_handlers, nextUuid>>
chanVars == <<bcastToSrv, bcastToCli, uniqToSrv, uniqToCli, uniqConnReq,
              bcastClosing, uniqClosing>>
connVars == <<is_connecting, is_connected, channel_id, bcastSocket,
              uniqueSocket, bcastPeer, bcastResolve, offlinePollingFn,
              pendingClose>>
queueVars == <<queue, emptying_queue, writing, bcast_queue,
               emptying_bcast_queue, bcastWriting>>
cliVars == <<client_name, cli_handlers, is_discovering, deliveries>>
obsVars == <<connectPromise, discoverPromise, nextDelivery, nextMsg, calls,
             drops, completed, wrote, handled, returned, result,
             asked, emitted, connectError, apiError, plain, wire, decoded,
             written, lastError, forwards>>
vars == <<srvVars, chanVars, connVars, queueVars, cliVars, obsVars>>

\* ------------------------------------------------------------------- Init
\* The state after "new ipcio.Server(options, handlers)" and
\* "new ipcio.Client(options, handlers)" for every client; the friendly
\* names are the application's choice and may collide.
InitProgram ==
  /\ is_started = FALSE
  /\ name_registry = <<>>
  /\ uuid_registry = <<>>
  /\ delivery_registry = <<>>
  /\ bcast_registry = {}
  /\ srv_handlers = [k \in {"ping"} |-> "h"]
  /\ nextUuid = 0
  /\ bcastToSrv = [u \in Uuids |-> <<>>]
  /\ bcastToCli = [u \in Uuids |-> <<>>]
  /\ uniqToSrv = [u \in Uuids |-> <<>>]
  /\ uniqToCli = [u \in Uuids |-> <<>>]
  /\ uniqConnReq = {}
  /\ bcastClosing = {}
  /\ uniqClosing = {}
  /\ client_name \in {f \in [Clients -> Names] : f["c1"] = "a"}
  /\ cli_handlers = [c \in Clients |-> [k \in {"ping"} |-> "h"]]
  /\ is_connecting = [c \in Clients |-> FALSE]
  /\ is_connected = [c \in Clients |-> FALSE]
  /\ channel_id = [c \in Clients |-> Null]
  /\ bcastSocket = [c \in Clients |-> "null"]
  /\ uniqueSocket = [c \in Clients |-> "null"]
  /\ bcastPeer = [c \in Clients |-> "none"]
  /\ bcastResolve = [c \in Clients |-> FALSE]
  /\ offlinePollingFn = [c \in Clients |-> "null"]
  /\ pendingClose = [c \in Clients |-> FALSE]
  /\ queue = [c \in Clients |-> <<>>]
  /\ emptying_queue = [c \in Clients |-> FALSE]
  /\ writing = [c \in Clients |-> "none"]
  /\ bcast_queue = [c \in Clients |-> <<>>]
  /\ emptying_bcast_queue = [c \in Clients |-> FALSE]
  /\ bcastWriting = [c \in Clients |-> "none"]
  /\ is_discovering = [c \in Clients |-> FALSE]
  /\ deliveries = [c \in Clients |-> {}]
  /\ connectPromise = [c \in Clients |-> "none"]
  /\ discoverPromise = [c \in Clients |-> "none"]
  /\ nextDelivery = 0
  /\ nextMsg = 0
  /\ calls = 0
  /\ drops = 0
  /\ completed = [c \in Clients |-> [unique |-> <<>>, bcast |-> <<>>]]
  /\ wrote = [c \in Clients |-> [unique |-> <<>>, bcast |-> <<>>]]
  /\ handled = <<>>
  /\ returned = <<>>
  /\ result = <<>>
  /\ asked = <<>>
  /\ emitted = <<>>
  /\ connectError = [c \in Clients |-> FALSE]
  /\ apiError = {}
  /\ written = {}
  /\ lastError = [c \in Clients |-> Null]
  /\ forwards = <<>>

\* No stream is being decoded.
Init ==
  /\ InitProgram
  /\ plain = <<>>
  /\ wire = <<>>
  /\ decoded = <<>>

\* ------------------------------------------------------- function helpers
\* delete obj[key]
Delete(f, k) == [x \in (DOMAIN f) \ {k} |-> f[x]]

\* obj[key] = value
Put(f, k, v) == [x \in (DOMAIN f) \cup {k} |-> IF x = k THEN v ELSE f[x]]

\* socket.write(frame) on the server's side of a connection: what is written
\* to a socket whose peer is gone is lost.
SockWrite(chan, closing, u, f) ==
  IF u \in closing THEN chan ELSE [chan EXCEPT ![u] = Append(@, f)]

\* the client instance at the other end of the server's connection u
PeerOfBcast(u) == {c \in Clients : bcastPeer[c] = u}
PeerOfUnique(u) == {c \in Clients : channel_id[c] = u /\ uniqueSocket[c] # "null"}

\* ------------------------------------------------------- the send queues
\* A queue with its semaphore and its socket write: [q, emptying, writing].
\* writing is "pending" from socket.write(frame, callback) to the callback,
\* "stale" when the socket was destroyed meanwhile and the runtime still
\* calls the callback, "double" when socket.write was called while the
\* callback of an earlier write of the queue was still to come, "none"
\* otherwise.
QS(q, emptying, w) == [q |-> q, emptying |-> emptying, writing |-> w]

sendQueueEntry(conn, qs) ==
  IF conn /\ qs.q # <<>>
  THEN [qs EXCEPT !.writing = IF @ = "none" THEN "pending" ELSE "double"]
  ELSE [qs EXCEPT !.emptying = FALSE]

\* A queue that starts to drain whether or not the client is connected.
handleQueueOffline(conn, qs) ==
  IF qs.q # <<>> /\ ~qs.emptying
  THEN [qs EXCEPT !.emptying = TRUE, !.writing = "pending"]
  ELSE qs

\* A queue that starts a write whatever its draining flag says.
handleQueueReentrant(conn, qs) ==
  IF conn /\ qs.q # <<>>
  THEN sendQueueEntry(conn, [qs EXCEPT !.emptying = TRUE])
  ELSE qs

handleQueue(conn, qs) ==
  IF conn /\ qs.q # <<>> /\ ~qs.emptying
  THEN sendQueueEntry(conn, [qs EXCEPT !.emptying = TRUE])
  ELSE qs

\* the callback given to _uniqueSocket.write
queueWriteCallback(conn, qs) ==
  LET rest == Tail(qs.q)
  IN IF rest = <<>>
     THEN QS(rest, FALSE, "none")
     ELSE sendQueueEntry(conn, QS(rest, qs.emptying, "none"))

sendBcastQueueEntry(conn, qs) ==
  IF conn /\ qs.q # <<>>
  THEN [qs EXCEPT !.writing = IF @ = "none" THEN "pending" ELSE "double"]
  ELSE [qs EXCEPT !.emptying = FALSE]

\* A rendezvous queue that starts to drain as soon as its socket is there,
\* connected or not.
handleBcastQueueOffline(conn, qs) ==
  IF qs.q # <<>> /\ ~qs.emptying
  THEN [qs EXCEPT !.emptying = TRUE, !.writing = "pending"]
  ELSE qs

handleBcastQueue(conn, qs) ==
  IF conn /\ qs.q # <<>> /\ ~qs.emptying
  THEN sendBcastQueueEntry(conn, [qs EXCEPT !.emptying = TRUE])
  ELSE qs

\* the callback given to _bcastSocket.write
bcastWriteCallback(conn, qs) ==
  LET rest == Tail(qs.q)
  IN IF rest = <<>>
     THEN QS(rest, FALSE, "none")
     ELSE sendBcastQueueEntry(conn, QS(rest, qs.emptying, "none"))

UQ(c) == QS(queue[c], emptying_queue[c], writing[c])
BQ(c) == QS(bcast_queue[c], emptying_bcast_queue[c], bcastWriting[c])

SetUQ(c, qs) ==
  /\ queue' = [queue EXCEPT ![c] = qs.q]
  /\ emptying_queue' = [emptying_queue EXCEPT ![c] = qs.emptying]
  /\ writing' = [writing EXCEPT ![c] = qs.writing]

SetBQ(c, qs) ==
  /\ bcast_queue' = [bcast_queue EXCEPT ![c] = qs.q]
  /\ emptying_bcast_queue' = [emptying_bcast_queue EXCEPT ![c] = qs.emptying]
  /\ bcastWriting' = [bcastWriting EXCEPT ![c] = qs.writing]

\* A queue that takes its entries at the front.
unshift(q, entry) == <<entry>> \o q

\* this._queue.push(entry), this._bcast_queue.push(entry)
push(q, entry) == Append(q, entry)

\* A queue entry [message, resolve]: the frame and whether a promise's
\* resolve comes with it; seq numbers the entries of a run and off tells
\* that the client was not connected when the entry was pushed.
Entry(c, msg, resolve) ==
  [msg |-> msg, resolve |-> resolve, seq |-> nextMsg + 1,
   off |-> ~is_connected[c]]

\* what a frame put into its channel adds to "wrote"
Written(entry) == [seq |-> entry.seq, off |-> entry.off]

\* what the promise resolutions of a write callback add to "completed"
Resolved(c, which, entry) ==
  IF entry.resolve
  THEN [completed EXCEPT ![c][which] =
          Append(@, [seq |-> entry.seq, off |-> entry.off])]
  ELSE completed

\* ------------------------------------------------ IpcServer.emit, broadcast
\* The unique channels after server.emit(name, command, data, delivery).
\* A server that writes to a registered name's connection without looking
\* at its socket.
emitUnchecked(chan, name, command, data, delivery) ==
  IF name \in DOMAIN name_registry
  THEN SockWrite(chan, uniqClosing, name_registry[name],
                 prepareMsg4(Null, command, data, delivery))
  ELSE chan

emit(chan, name, command, data, delivery) ==
  IF /\ name \in DOMAIN name_registry
     /\ name_registry[name] \in DOMAIN uuid_registry
     /\ uuid_registry[name_registry[name]].socket = "open"
  THEN SockWrite(chan, uniqClosing, name_registry[name],
                 prepareMsg4(Null, command, data, delivery))
  ELSE chan

\* A server that leaves nobody out.
broadcastTargetsAll(initiator_client) ==
  {u \in DOMAIN uuid_registry : uuid_registry[u].socket = "open"}

\* the uuids server.broadcast(command, data, initiator_client) writes to
broadcastTargets(initiator_client) ==
  {u \in DOMAIN uuid_registry :
     /\ ~(/\ initiator_client \notin Falsy
          /\ initiator_client \in DOMAIN name_registry
          /\ name_registry[initiator_client] = u)
     /\ uuid_registry[u].socket = "open"}

\* The unique channels after server.broadcast(command, data, initiator).
broadcast(chan, command, data, initiator_client) ==
  [u \in DOMAIN chan |->
     IF u \in broadcastTargets(initiator_client) /\ u \notin uniqClosing
     THEN Append(chan[u], prepareMsg2(command, data))
     ELSE chan[u]]

\* The six command names of the protocol.
Restricted ==
  {COMMAND_HANDSHAKE, COMMAND_DISCOVER, COMMAND_BROADCAST, COMMAND_EMIT,
   COMMAND_DELIVER, COMMAND_ERROR}

\* A registry that takes every name.
restrictedNever(command) == FALSE

\* addCommandHandler's test for a restricted command name
restricted(command) == command \in Restricted

\* A registry that lets a handler be replaced.
registeredNever(handlers, command) == FALSE

\* command in this._command_handlers
registered(handlers, command) == command \in DOMAIN handlers

\* addCommandHandler(command, handler) throws.
addThrows(handlers, command) ==
  IF restricted(command) THEN "restricted"
  ELSE IF registered(handlers, command) THEN command
  ELSE Null

\* this._command_handlers after addCommandHandler(command, handler)
addCommandHandler(handlers, command, handler) ==
  IF addThrows(handlers, command) # Null
  THEN handlers
  ELSE [k \in DOMAIN handlers \cup {command} |->
          IF k = command THEN handler ELSE handlers[k]]

\* A dispatch that finds no handler.
hasHandlerNever(handlers, message) == FALSE

\* executeCommandHandlers: whether a handler runs for the message
hasHandler(handlers, message) ==
  message.command # Null /\ message.command \in DOMAIN handlers

\* The handler for the message's command runs and throws: the exception
\* leaves executeCommandHandlers, the forEach callback and the data
\* listener.
threw(handlers, message, r) == hasHandler(handlers, message) /\ r = Throw

\* What is left of a socket's inbound frames after a data event: the frame
\* handled is gone, and with it the k frames that followed it in the same
\* read when the listener was left by an exception.
afterRead(frames, k) == SubSeq(frames, k + 2, Len(frames))

\* executeCommandHandlers' result, r being what the handler returns
executeCommandHandlers(handlers, message, r) ==
  LET ret == IF hasHandler(handlers, message) THEN r ELSE Null
  IN IF ret = Undef THEN Null ELSE ret

\* A receiver that answers every frame.
wantsReplyAlways(message) == TRUE

\* if (message.delivery !== null): the sender wants the handler's result
wantsReply(message) == message.delivery # Null

\* ---------------------------------------------------------------- server
\* A handshake that registers its name whoever holds it.
nameTakenNever(name) == FALSE

\* A name that counts as taken only once its client's unique socket is up.
nameTakenIfConnected(name) ==
  /\ name \in DOMAIN name_registry
  /\ uuid_registry[name_registry[name]].socket = "open"

\* if (this._name_registry[client_name]): the handshake's name is taken
nameTaken(name) == name \in DOMAIN name_registry

\* A refusal that does not say whose handshake it refuses.
nameTakenReplyNoId(client_name_) ==
  prepareMsg2(COMMAND_ERROR, ToString(E_CLIENT_NAME_TAKEN))

\* prepareMsg(client_name, COMMAND_ERROR, E_CLIENT_NAME_TAKEN)
nameTakenReply(client_name_) ==
  prepareMsg3(client_name_, COMMAND_ERROR, ToString(E_CLIENT_NAME_TAKEN))

\* IpcServer.start(), on a server that is not started.
\* A server that takes itself for started before start().
alreadyStartedAlways == TRUE

\* this._is_started
alreadyStarted == is_started

\* IpcServer.start() called on a started server: it throws.
ServerStartThrows ==
  /\ alreadyStarted
  /\ apiError' = apiError \cup {<<"server", "start">>}
  /\ UNCHANGED <<plain, wire, decoded>>
  /\ UNCHANGED <<connectPromise, discoverPromise, nextDelivery, nextMsg,
                 calls, drops, completed, wrote, handled, returned, result,
                 asked, emitted, connectError, written, lastError, forwards>>
  /\ UNCHANGED <<srvVars, chanVars, connVars, queueVars, cliVars>>

ServerStart ==
  /\ ~alreadyStarted
  /\ is_started' = TRUE
  /\ UNCHANGED <<name_registry, uuid_registry, delivery_registry,
                 bcast_registry, srv_handlers, nextUuid>>
  /\ UNCHANGED <<chanVars, connVars, queueVars, cliVars, obsVars>>

\* $onServerBcastCreation: the rendezvous listener accepts client c's
\* connection.  It runs before the client's connect callback here: nothing
\* reads bcast_registry in between.
ServerBcastCreation(c) ==
  /\ is_started
  /\ bcastSocket[c] = "connecting"
  /\ bcastPeer[c] = "none"
  /\ LET uuid == UuidName[nextUuid + 1]
     IN /\ bcast_registry' = bcast_registry \cup {uuid}
        /\ bcastPeer' = [bcastPeer EXCEPT ![c] = uuid]
  /\ nextUuid' = nextUuid + 1
  /\ UNCHANGED <<is_started, name_registry, uuid_registry, delivery_registry,
                 srv_handlers>>
  /\ UNCHANGED <<is_connecting, is_connected, channel_id, bcastSocket,
                 uniqueSocket, bcastResolve, offlinePollingFn, pendingClose>>
  /\ UNCHANGED <<chanVars, queueVars, cliVars, obsVars>>

\* $onServerBcastData, for one frame read from rendezvous socket uuid.
ServerBcastData(uuid) ==
  /\ uuid \in bcast_registry
  /\ bcastToSrv[uuid] # <<>>
  /\ \E k \in 0..(Len(bcastToSrv[uuid]) - 1) :
       /\ k > 0 => LET message == parseEntry(Head(bcastToSrv[uuid]))
                   IN /\ message.command \in {COMMAND_BROADCAST, COMMAND_EMIT}
                      /\ innerThrows(message)
       /\ bcastToSrv' = [bcastToSrv EXCEPT ![uuid] = afterRead(@, k)]
  /\ LET message == parseEntry(Head(bcastToSrv[uuid]))
         reply(f) == SockWrite(bcastToCli, bcastClosing, uuid, f)
     IN CASE message.command = COMMAND_HANDSHAKE ->
               LET name == message.data
               IN /\ IF nameTaken(name)
                     THEN /\ bcastToCli' = reply(nameTakenReply(name))
                          /\ UNCHANGED <<name_registry, uuid_registry>>
                     ELSE /\ name_registry' = Put(name_registry, name, uuid)
                          /\ uuid_registry' =
                               Put(uuid_registry, uuid,
                                   [name |-> name, server |-> "listening",
                                    socket |-> Undef])
                          /\ bcastToCli' =
                               reply(prepareMsg3(name, COMMAND_HANDSHAKE, uuid))
                  /\ UNCHANGED <<delivery_registry, uniqToCli, written>>
          [] message.command = COMMAND_DISCOVER ->
               /\ bcastToCli' =
                    reply(prepareMsg3(message.id, COMMAND_DISCOVER,
                                      "{clients,command_handlers}"))
               /\ UNCHANGED <<name_registry, uuid_registry, delivery_registry,
                              uniqToCli, written>>
          [] message.command = COMMAND_BROADCAST ->
               LET message_to_be_bcasted == parseInner(message)
               IN /\ uniqToCli' =
                       IF innerThrows(message)
                       THEN uniqToCli
                       ELSE broadcast(uniqToCli, message_to_be_bcasted.command,
                                      message_to_be_bcasted.data, Null)
                  /\ written' =
                       IF innerThrows(message)
                       THEN written
                       ELSE written \cup
                         {<<from, to>> \in Clients \X Clients :
                            /\ from \in PeerOfBcast(uuid)
                            /\ \E u \in broadcastTargets(Null) \ uniqClosing :
                                 to \in PeerOfUnique(u)}
                  /\ UNCHANGED <<name_registry, uuid_registry,
                                 delivery_registry, bcastToCli>>
          [] message.command = COMMAND_EMIT ->
               LET name == message.id
                   message_to_be_emitted == parseInner(message)
               IN /\ delivery_registry' =
                       IF message.delivery # Null
                       THEN Put(delivery_registry, message.delivery, name)
                       ELSE delivery_registry
                  /\ uniqToCli' =
                       IF innerThrows(message)
                       THEN uniqToCli
                       ELSE emit(uniqToCli, message_to_be_emitted.id,
                                 message_to_be_emitted.command,
                                 message_to_be_emitted.data,
                                 message_to_be_emitted.delivery)
                  /\ UNCHANGED <<name_registry, uuid_registry, bcastToCli,
                                 written>>
          [] OTHER ->
               UNCHANGED <<name_registry, uuid_registry, delivery_registry,
                           bcastToCli, uniqToCli, written>>
  /\ UNCHANGED <<is_started, bcast_registry, srv_handlers, nextUuid>>
  /\ UNCHANGED <<uniqToSrv, uniqConnReq, bcastClosing, uniqClosing>>
  /\ UNCHANGED <<connectPromise, discoverPromise, nextDelivery, nextMsg, calls,
                 drops, completed, wrote, handled, returned, result,
                 asked, emitted, connectError, apiError, plain, wire, decoded,
                 lastError, forwards>>
  /\ UNCHANGED <<connVars, queueVars, cliVars>>

\* $onServerBcastClose: the close event of rendezvous socket uuid.
ServerBcastClose(uuid) ==
  /\ uuid \in bcastClosing
  /\ bcastToSrv[uuid] = <<>>
  /\ bcast_registry' = bcast_registry \ {uuid}
  /\ bcastClosing' = bcastClosing \ {uuid}
  /\ UNCHANGED <<is_started, name_registry, uuid_registry, delivery_registry,
                 srv_handlers, nextUuid>>
  /\ UNCHANGED <<bcastToSrv, bcastToCli, uniqToSrv, uniqToCli, uniqConnReq,
                 uniqClosing>>
  /\ UNCHANGED <<connVars, queueVars, cliVars, obsVars>>

\* $onServerUniqueCreation: the unique listener of uuid accepts the client's
\* connection and closes.
ServerUniqueCreation(uuid) ==
  /\ uuid \in uniqConnReq
  /\ uuid \in DOMAIN uuid_registry
  /\ uuid_registry[uuid].server = "listening"
  /\ uuid_registry' = [uuid_registry EXCEPT ![uuid].socket = "open",
                                            ![uuid].server = "closed"]
  /\ uniqConnReq' = uniqConnReq \ {uuid}
  /\ UNCHANGED <<is_started, name_registry, delivery_registry, bcast_registry,
                 srv_handlers, nextUuid>>
  /\ UNCHANGED <<bcastToSrv, bcastToCli, uniqToSrv, uniqToCli, bcastClosing,
                 uniqClosing>>
  /\ UNCHANGED <<connVars, queueVars, cliVars, obsVars>>

\* A server that keeps the entry of a delivery it has forwarded.
deliveredKept(registry, delivery) == registry

\* delete this._delivery_registry[message.delivery]
delivered(registry, delivery) == Delete(registry, delivery)

\* $onServerUniqueData, for one frame read from the unique socket of uuid;
\* r is what the application's handler returns when one runs.
ServerUniqueData(uuid, r) ==
  /\ uuid \in DOMAIN uuid_registry
  /\ uuid_registry[uuid].socket = "open"
  /\ uniqToSrv[uuid] # <<>>
  /\ \E k \in 0..(Len(uniqToSrv[uuid]) - 1) :
       /\ k > 0 => threw(srv_handlers, parseEntry(Head(uniqToSrv[uuid])), r)
       /\ uniqToSrv' = [uniqToSrv EXCEPT ![uuid] = afterRead(@, k)]
  /\ LET message == parseEntry(Head(uniqToSrv[uuid]))
         client_name_ == uuid_registry[uuid].name
     IN IF /\ message.command = COMMAND_DELIVER
           /\ message.delivery # Null
           /\ message.delivery \in DOMAIN delivery_registry
        THEN /\ r = Null
             /\ uniqToCli' = emit(uniqToCli, delivery_registry[message.delivery],
                                  COMMAND_DELIVER, message.data,
                                  message.delivery)
             /\ delivery_registry' = delivered(delivery_registry, message.delivery)
             /\ forwards' =
                  Append(forwards,
                         [delivery |-> message.delivery, by |-> client_name_,
                          to |-> delivery_registry[message.delivery]])
             /\ UNCHANGED <<handled, returned>>
        ELSE LET ret == executeCommandHandlers(srv_handlers, message, r)
             IN /\ hasHandler(srv_handlers, message) \/ r = Null
                /\ handled' =
                     IF hasHandler(srv_handlers, message)
                     THEN Append(handled,
                                 [at |-> "server", command |-> message.command,
                                  data |-> message.data, name |-> client_name_])
                     ELSE handled
                /\ uniqToCli' =
                     IF wantsReply(message) /\ ~threw(srv_handlers, message, r)
                     THEN emit(uniqToCli, client_name_, COMMAND_DELIVER, ret,
                               message.delivery)
                     ELSE uniqToCli
                /\ returned' =
                     IF message.delivery # Null /\ message.command # COMMAND_DELIVER
                     THEN Put(returned, message.delivery,
                              IF hasHandler(srv_handlers, message) THEN r ELSE Undef)
                     ELSE returned
                /\ UNCHANGED <<delivery_registry, forwards>>
  /\ UNCHANGED <<is_started, name_registry, uuid_registry, bcast_registry,
                 srv_handlers, nextUuid>>
  /\ UNCHANGED <<bcastToSrv, bcastToCli, uniqConnReq, bcastClosing, uniqClosing>>
  /\ UNCHANGED <<connectPromise, discoverPromise, nextDelivery, nextMsg, calls,
                 drops, completed, wrote, result,
                 asked, emitted, connectError, apiError,
                 plain, wire, decoded, written, lastError>>
  /\ UNCHANGED <<connVars, queueVars, cliVars>>

\* $onServerUniqueClose: the close event of the unique socket of uuid, bound
\* to the name of the handshake.
ServerUniqueClose(uuid) ==
  /\ uuid \in uniqClosing
  /\ uuid \in DOMAIN uuid_registry
  /\ uuid_registry[uuid].socket = "open"
  /\ uniqToSrv[uuid] = <<>>
  /\ LET client_name_ == uuid_registry[uuid].name
     IN name_registry' = Delete(name_registry, client_name_)
  /\ uuid_registry' = [uuid_registry EXCEPT
                         ![uuid] = [name |-> Undef, server |-> Undef,
                                    socket |-> Undef]]
  /\ uniqClosing' = uniqClosing \ {uuid}
  /\ UNCHANGED <<is_started, delivery_registry, bcast_registry, srv_handlers,
                 nextUuid>>
  /\ UNCHANGED <<bcastToSrv, bcastToCli, uniqToSrv, uniqToCli, uniqConnReq,
                 bcastClosing>>
  /\ UNCHANGED <<connVars, queueVars, cliVars, obsVars>>

\* The server's application calls server.emit(client_name, command, data)
\* or server.broadcast(command, data, initiator_client).
ServerCallFrame ==
  /\ is_started
  /\ calls' = calls + 1
  /\ UNCHANGED <<bcastToSrv, bcastToCli, uniqToSrv, uniqConnReq, bcastClosing,
                 uniqClosing>>
  /\ UNCHANGED <<connectPromise, discoverPromise, nextDelivery, nextMsg,
                 drops, completed, wrote, handled, returned, result,
                 asked, emitted, connectError, apiError,
                 plain, wire, decoded, written, lastError, forwards>>
  /\ UNCHANGED <<srvVars, connVars, queueVars, cliVars>>

ServerEmit(client_name_, command) ==
  /\ ServerCallFrame
  /\ uniqToCli' = emit(uniqToCli, client_name_, command, Payload[calls + 1],
                       Null)

ServerBroadcast(command, initiator_client) ==
  /\ ServerCallFrame
  /\ uniqToCli' = broadcast(uniqToCli, command, Payload[calls + 1],
                            initiator_client)

\* A peer of the rendezvous socket of client c writes an envelope it has
\* built itself: the data is not the text of a frame.
RawBcastWrite(c, command, data, delivery) ==
  /\ bcastSocket[c] = "open"
  /\ calls' = calls + 1
  /\ bcastToSrv' = [bcastToSrv EXCEPT ![bcastPeer[c]] =
                      Append(@, [id |-> client_name[c], command |-> command,
                                 data |-> data, delivery |-> delivery,
                                 inner |-> NoInner])]
  /\ UNCHANGED <<bcastToCli, uniqToSrv, uniqToCli, uniqConnReq, bcastClosing,
                 uniqClosing>>
  /\ UNCHANGED <<connectPromise, discoverPromise, nextDelivery, nextMsg,
                 drops, completed, wrote, handled, returned, result,
                 asked, emitted, connectError, apiError,
                 plain, wire, decoded, written, lastError, forwards>>
  /\ UNCHANGED <<srvVars, connVars, queueVars, cliVars>>

\* A data event of the receiving socket: the first n pieces of the stream
\* arrive as one buffer, which the listener hands to parseMsg.
SocketData(n) ==
  /\ n \in 1..Len(wire)
  /\ decoded' = decoded \o parseMsg(SubSeq(wire, 1, n))
  /\ wire' = SubSeq(wire, n + 1, Len(wire))
  /\ UNCHANGED <<plain, apiError>>
  /\ UNCHANGED <<connectPromise, discoverPromise, nextDelivery, nextMsg,
                 calls, drops, completed, wrote, handled, returned, result,
                 asked, emitted, connectError, written, lastError, forwards>>
  /\ UNCHANGED <<srvVars, chanVars, connVars, queueVars, cliVars>>

\* server.addHandlers({command: handler}) and
\* client.addHandlers({command: handler}), who being "server" or a client.
AddHandlers(who, command, handler) ==
  LET handlers == IF who = "server" THEN srv_handlers ELSE cli_handlers[who]
      after == addCommandHandler(handlers, command, handler)
  IN /\ IF who = "server"
        THEN srv_handlers' = after /\ UNCHANGED cli_handlers
        ELSE /\ cli_handlers' = [cli_handlers EXCEPT ![who] = after]
             /\ UNCHANGED srv_handlers
     /\ apiError' = IF addThrows(handlers, command) # Null
                    THEN apiError \cup {<<who, addThrows(handlers, command)>>}
                    ELSE apiError
     /\ UNCHANGED <<is_started, name_registry, uuid_registry,
                    delivery_registry, bcast_registry, nextUuid>>
     /\ UNCHANGED <<client_name, is_discovering, deliveries>>
     /\ UNCHANGED <<plain, wire, decoded>>
     /\ UNCHANGED <<connectPromise, discoverPromise, nextDelivery, nextMsg,
                    calls, drops, completed, wrote, handled, returned, result,
                    asked, emitted, connectError, written, lastError, forwards>>
     /\ UNCHANGED <<chanVars, connVars, queueVars>>

\* The handler functions the applications register.
HandlerIds == {"h", "h2"}

\* A collection value that is no function.
NotCallable == "notfn"

\* The commands of the collections: application commands, and a
\* restricted name.
CollectionCommands == Commands \cup {"stat", "echo", COMMAND_EMIT}

\* handler_collection objects of two entries, in the order for...in
\* enumerates them; a command is a key and occurs once.
Collections ==
  {coll \in [1..2 -> [command : CollectionCommands,
                      handler : HandlerIds \cup {NotCallable}]] :
     coll[1].command # coll[2].command}

\* addHandlers' loop body throws on the entry.
entryThrows(handlers, entry) ==
  entry.handler = NotCallable \/ addThrows(handlers, entry.command) # Null

RECURSIVE addHandlersThrows(_, _)
\* addHandlers(handler_collection) throws on one of the entries.
addHandlersThrows(handlers, collection) ==
  IF collection = <<>> THEN FALSE
  ELSE IF entryThrows(handlers, Head(collection)) THEN TRUE
  ELSE addHandlersThrows(
         addCommandHandler(handlers, Head(collection).command,
                           Head(collection).handler),
         Tail(collection))

RECURSIVE addHandlers(_, _)
\* this._command_handlers after addHandlers(handler_collection): the
\* entries are registered one by one until one throws.
addHandlers(handlers, collection) ==
  IF collection = <<>> THEN handlers
  ELSE IF entryThrows(handlers, Head(collection)) THEN handlers
  ELSE addHandlers(
         addCommandHandler(handlers, Head(collection).command,
                           Head(collection).handler),
         Tail(collection))

\* server.addHandlers(collection) and client.addHandlers(collection), for
\* a collection of two entries.
AddHandlerCollection(who, collection) ==
  LET handlers == IF who = "server" THEN srv_handlers ELSE cli_handlers[who]
      after == addHandlers(handlers, collection)
  IN /\ IF who = "server"
        THEN srv_handlers' = after /\ UNCHANGED cli_handlers
        ELSE /\ cli_handlers' = [cli_handlers EXCEPT ![who] = after]
             /\ UNCHANGED srv_handlers
     /\ apiError' = IF addHandlersThrows(handlers, collection)
                    THEN apiError \cup {<<who, "collection">>}
                    ELSE apiError
     /\ UNCHANGED <<is_started, name_registry, uuid_registry,
                    delivery_registry, bcast_registry, nextUuid>>
     /\ UNCHANGED <<client_name, is_discovering, deliveries>>
     /\ UNCHANGED <<plain, wire, decoded>>
     /\ UNCHANGED <<connectPromise, discoverPromise, nextDelivery, nextMsg,
                    calls, drops, completed, wrote, handled, returned, result,
                    asked, emitted, connectError, written, lastError,
                    forwards>>
     /\ UNCHANGED <<chanVars, connVars, queueVars>>

\* ---------------------------------------------------------------- client
\* $onClientOffline: what it does to the client and, by destroying the
\* sockets, to their connections.  The socket.write callback of a write that
\* was pending on a destroyed socket is still called by some runtimes and
\* never called by others.
\* A client that leaves its sockets as they are.
destroyedKept(socket) == socket

\* socket.destroy(); this._uniqueSocket = null / this._bcastSocket = null
destroyed(socket) == "null"

\* A client that is idle again once it has lost its connection.
offlineIdle == FALSE

\* $onClientOffline: this._is_connecting = true
offlineConnecting == TRUE

ClientOffline(c) ==
  /\ is_connected' = [is_connected EXCEPT ![c] = FALSE]
  /\ is_connecting' = [is_connecting EXCEPT ![c] = offlineConnecting]
  /\ offlinePollingFn' = [offlinePollingFn EXCEPT ![c] = "armed"]
  /\ channel_id' = [channel_id EXCEPT ![c] = Null]
  /\ uniqueSocket' = [uniqueSocket EXCEPT ![c] = destroyed(@)]
  /\ bcastSocket' = [bcastSocket EXCEPT ![c] = destroyed(@)]
  /\ bcastPeer' = [bcastPeer EXCEPT ![c] = "none"]
  /\ bcastResolve' = [bcastResolve EXCEPT ![c] = FALSE]
  /\ pendingClose' = [pendingClose EXCEPT
                        ![c] = bcastSocket[c] # "null" \/ uniqueSocket[c] # "null"]
  /\ bcastClosing' = IF bcastPeer[c] # "none"
                     THEN bcastClosing \cup {bcastPeer[c]} ELSE bcastClosing
  /\ bcastToCli' = IF bcastPeer[c] # "none"
                   THEN [bcastToCli EXCEPT ![bcastPeer[c]] = <<>>] ELSE bcastToCli
  /\ uniqClosing' = IF uniqueSocket[c] # "null"
                    THEN uniqClosing \cup {channel_id[c]} ELSE uniqClosing
  /\ uniqToCli' = IF uniqueSocket[c] # "null"
                  THEN [uniqToCli EXCEPT ![channel_id[c]] = <<>>] ELSE uniqToCli
  /\ \E w \in IF writing[c] = "pending" THEN {"stale", "none"} ELSE {writing[c]} :
       writing' = [writing EXCEPT ![c] = w]
  /\ \E w \in IF bcastWriting[c] = "pending" THEN {"stale", "none"}
              ELSE {bcastWriting[c]} :
       bcastWriting' = [bcastWriting EXCEPT ![c] = w]
  /\ UNCHANGED <<queue, emptying_queue, bcast_queue, emptying_bcast_queue>>
  /\ UNCHANGED <<bcastToSrv, uniqToSrv, uniqConnReq>>
  /\ UNCHANGED <<srvVars, cliVars>>

\* An error, close or finish event of one of the client's live sockets.
SocketError(c) ==
  /\ bcastSocket[c] # "null" \/ uniqueSocket[c] # "null"
  \* a rendezvous connect that is still under way fails in BcastConnectError
  /\ ~(bcastSocket[c] = "connecting" /\ bcastPeer[c] = "none")
  /\ ClientOffline(c)
  /\ drops' = drops + 1
  /\ UNCHANGED <<connectPromise, discoverPromise, nextDelivery, nextMsg, calls,
                 completed, wrote, handled, returned, result,
                 asked, emitted, connectError, apiError,
                 plain, wire, decoded, written,
                 lastError, forwards>>

\* The rendezvous connect fails: no server listens on the path.
BcastConnectError(c) ==
  /\ ~is_started
  /\ bcastSocket[c] = "connecting"
  /\ bcastPeer[c] = "none"
  /\ ClientOffline(c)
  /\ UNCHANGED obsVars

\* The close event of a socket $onClientOffline destroyed: it runs
\* $onClientOffline again.
StaleClose(c) ==
  /\ pendingClose[c]
  /\ ClientOffline(c)
  /\ UNCHANGED obsVars

\* The reconnect timer set by $onClientOffline fires (2000 ms later, so
\* after the events of the destroyed sockets).
ReconnectTimer(c) ==
  /\ offlinePollingFn[c] = "armed"
  /\ ~pendingClose[c]
  /\ writing[c] # "stale" /\ bcastWriting[c] # "stale"
  /\ offlinePollingFn' = [offlinePollingFn EXCEPT ![c] = "fired"]
  /\ is_connecting' = [is_connecting EXCEPT ![c] = TRUE]
  /\ bcastSocket' = [bcastSocket EXCEPT ![c] = "connecting"]
  /\ bcastResolve' = [bcastResolve EXCEPT ![c] = FALSE]
  /\ UNCHANGED <<is_connected, channel_id, uniqueSocket, bcastPeer, pendingClose>>
  /\ UNCHANGED <<srvVars, chanVars, queueVars, cliVars, obsVars>>

\* IpcClient.connect(), on a client that is neither connecting nor connected.
\* A client that refuses connect() only when connected.
alreadyConnectingIfConnected(c) == is_connected[c]

\* this._is_connecting || this._is_connected
alreadyConnecting(c) == is_connecting[c] \/ is_connected[c]

\* IpcClient.connect() called when already connected/ing: it throws.
ConnectThrows(c) ==
  /\ alreadyConnecting(c)
  /\ connectError' = [connectError EXCEPT ![c] = TRUE]
  /\ UNCHANGED <<connectPromise, discoverPromise, nextDelivery, nextMsg,
                 calls, drops, completed, wrote, handled, returned, result,
                 asked, emitted, apiError, plain, wire, decoded, written,
                 lastError, forwards>>
  /\ UNCHANGED <<srvVars, chanVars, connVars, queueVars, cliVars>>

Connect(c) ==
  /\ ~alreadyConnecting(c)
  /\ is_connecting' = [is_connecting EXCEPT ![c] = TRUE]
  /\ bcastSocket' = [bcastSocket EXCEPT ![c] = "connecting"]
  /\ bcastResolve' = [bcastResolve EXCEPT ![c] = TRUE]
  /\ connectPromise' = [connectPromise EXCEPT ![c] = "pending"]
  /\ UNCHANGED <<is_connected, channel_id, uniqueSocket, bcastPeer,
                 offlinePollingFn, pendingClose>>
  /\ UNCHANGED <<discoverPromise, nextDelivery, nextMsg, calls, drops,
                 completed, wrote, handled, returned, result,
                 asked, emitted, connectError, apiError,
                 plain, wire, decoded, written,
                 lastError, forwards>>
  /\ UNCHANGED <<srvVars, chanVars, queueVars, cliVars>>

\* $onClientBcastConnect: the connect callback of the rendezvous socket.
ClientBcastConnect(c) ==
  /\ bcastSocket[c] = "connecting"
  /\ bcastPeer[c] # "none"
  /\ offlinePollingFn' = [offlinePollingFn EXCEPT ![c] = "null"]
  /\ bcastSocket' = [bcastSocket EXCEPT ![c] = "open"]
  /\ bcastToSrv' = [bcastToSrv EXCEPT
                      ![bcastPeer[c]] =
                        Append(@, prepareMsg2(COMMAND_HANDSHAKE, client_name[c]))]
  /\ UNCHANGED <<is_connecting, is_connected, channel_id, uniqueSocket,
                 bcastPeer, bcastResolve, pendingClose>>
  /\ UNCHANGED <<bcastToCli, uniqToSrv, uniqToCli, uniqConnReq, bcastClosing,
                 uniqClosing>>
  /\ UNCHANGED <<srvVars, queueVars, cliVars, obsVars>>

\* The data handler $onClientBcastConnect gives the rendezvous socket, for
\* one frame.
ClientBcastData(c) ==
  /\ bcastSocket[c] = "open"
  /\ bcastToCli[bcastPeer[c]] # <<>>
  /\ bcastToCli' = [bcastToCli EXCEPT ![bcastPeer[c]] = Tail(@)]
  /\ LET message == parseEntry(Head(bcastToCli[bcastPeer[c]]))
         mine == message.id = client_name[c]
     IN /\ IF message.command = COMMAND_HANDSHAKE /\ mine
           THEN /\ channel_id' = [channel_id EXCEPT ![c] = message.data]
                /\ uniqueSocket' = [uniqueSocket EXCEPT ![c] = "connecting"]
                /\ uniqConnReq' = uniqConnReq \cup {message.data}
           ELSE UNCHANGED <<channel_id, uniqueSocket, uniqConnReq>>
        /\ IF message.command = COMMAND_DISCOVER /\ mine
           THEN /\ discoverPromise' = [discoverPromise EXCEPT ![c] = "resolved"]
                /\ is_discovering' = [is_discovering EXCEPT ![c] = FALSE]
           ELSE UNCHANGED <<discoverPromise, is_discovering>>
        /\ lastError' = IF message.command = COMMAND_ERROR
                        THEN [lastError EXCEPT ![c] = message.data]
                        ELSE lastError
  /\ UNCHANGED <<is_connecting, is_connected, bcastSocket, bcastPeer,
                 bcastResolve, offlinePollingFn, pendingClose>>
  /\ UNCHANGED <<bcastToSrv, uniqToSrv, uniqToCli, bcastClosing, uniqClosing>>
  /\ UNCHANGED <<connectPromise, nextDelivery, nextMsg, calls, drops,
                 completed, wrote, handled, returned, result,
                 asked, emitted, connectError, apiError,
                 plain, wire, decoded, written, forwards>>
  /\ UNCHANGED <<client_name, cli_handlers, deliveries>>
  /\ UNCHANGED <<srvVars, queueVars>>

\* A client that goes on connecting once its unique socket is open.
connectingKept(connecting) == connecting

\* $onClientUniqueConnect: this._is_connecting = false
connectingDone(connecting) == FALSE

\* $onClientUniqueConnect: the connect callback of the unique socket.
ClientUniqueConnect(c) ==
  /\ uniqueSocket[c] = "connecting"
  /\ is_connecting' = [is_connecting EXCEPT ![c] = connectingDone(@)]
  /\ is_connected' = [is_connected EXCEPT ![c] = TRUE]
  /\ connectPromise' = IF bcastResolve[c]
                       THEN [connectPromise EXCEPT ![c] = "resolved"]
                       ELSE connectPromise
  /\ SetUQ(c, handleQueue(TRUE, UQ(c)))
  /\ uniqueSocket' = [uniqueSocket EXCEPT ![c] = "open"]
  /\ UNCHANGED <<channel_id, bcastSocket, bcastPeer, bcastResolve,
                 offlinePollingFn, pendingClose>>
  /\ UNCHANGED <<bcast_queue, emptying_bcast_queue, bcastWriting>>
  /\ UNCHANGED <<discoverPromise, nextDelivery, nextMsg, calls, drops,
                 completed, wrote, handled, returned, result,
                 asked, emitted, connectError, apiError,
                 plain, wire, decoded, written,
                 lastError, forwards>>
  /\ UNCHANGED <<srvVars, chanVars, cliVars>>

\* $onClientUniqueData, for one frame read from the unique socket; r is what
\* the application's handler returns when one runs.
ClientUniqueData(c, r) ==
  /\ uniqueSocket[c] = "open"
  /\ uniqToCli[channel_id[c]] # <<>>
  /\ \E k \in 0..(Len(uniqToCli[channel_id[c]]) - 1) :
       /\ k > 0 => threw(cli_handlers[c],
                         parseEntry(Head(uniqToCli[channel_id[c]])), r)
       /\ uniqToCli' = [uniqToCli EXCEPT ![channel_id[c]] = afterRead(@, k)]
  /\ LET message == parseEntry(Head(uniqToCli[channel_id[c]]))
     IN IF /\ message.command = COMMAND_DELIVER
           /\ message.delivery # Null
           /\ message.delivery \in deliveries[c]
        THEN /\ r = Null
             /\ result' = Put(result, message.delivery, message.data)
             /\ deliveries' = [deliveries EXCEPT ![c] = @ \ {message.delivery}]
             /\ UNCHANGED <<handled, returned, nextMsg, queueVars>>
        ELSE LET ret == executeCommandHandlers(cli_handlers[c], message, r)
                 ran == hasHandler(cli_handlers[c], message)
             IN /\ ran \/ r = Null
                /\ handled' =
                     IF ran
                     THEN Append(handled,
                                 [at |-> c, command |-> message.command,
                                  data |-> message.data, name |-> client_name[c]])
                     ELSE handled
                /\ returned' =
                     IF message.delivery # Null /\ message.command # COMMAND_DELIVER
                     THEN Put(returned, message.delivery, IF ran THEN r ELSE Undef)
                     ELSE returned
                /\ IF wantsReply(message) /\ ~threw(cli_handlers[c], message, r)
                   THEN \* this.send(COMMAND_DELIVER, ret, message.delivery)
                        /\ SetUQ(c, handleQueue(is_connected[c],
                                   [UQ(c) EXCEPT !.q =
                                      push(@, Entry(c,
                                        prepareMsg4(Null, COMMAND_DELIVER, ret,
                                                    message.delivery), TRUE))]))
                        /\ nextMsg' = nextMsg + 1
                   ELSE UNCHANGED <<nextMsg, queue, emptying_queue, writing>>
                /\ UNCHANGED <<result, deliveries, bcast_queue,
                               emptying_bcast_queue, bcastWriting>>
  /\ UNCHANGED <<bcastToSrv, bcastToCli, uniqToSrv, uniqConnReq, bcastClosing,
                 uniqClosing>>
  /\ UNCHANGED <<connectPromise, discoverPromise, nextDelivery, calls, drops,
                 completed, wrote,
                 asked, emitted, connectError, apiError,
                 plain, wire, decoded, written, lastError, forwards>>
  /\ UNCHANGED <<client_name, cli_handlers, is_discovering>>
  /\ UNCHANGED <<srvVars, connVars>>

\* -------------------------------------------------- the client's queue API
\* what every enqueueing call leaves alone
CallFrame ==
  /\ calls' = calls + 1
  /\ nextMsg' = nextMsg + 1
  /\ UNCHANGED <<connectPromise, drops, completed, wrote, handled, returned,
                 result, written, lastError, forwards>>
  /\ UNCHANGED <<client_name, cli_handlers>>
  /\ UNCHANGED <<srvVars, chanVars, connVars>>

PushUQ(c, msg, resolve) ==
  SetUQ(c, handleQueue(is_connected[c],
                       [UQ(c) EXCEPT !.q = push(@, Entry(c, msg, resolve))]))

PushBQ(c, msg, resolve) ==
  SetBQ(c, handleBcastQueue(is_connected[c],
                            [BQ(c) EXCEPT !.q = push(@, Entry(c, msg, resolve))]))

\* IpcClient.send(command, data)
Send(c, command) ==
  /\ CallFrame
  /\ PushUQ(c, prepareMsg4(Null, command, Payload[calls + 1], Null), TRUE)
  /\ UNCHANGED <<bcast_queue, emptying_bcast_queue, bcastWriting>>
  /\ UNCHANGED <<is_discovering, deliveries, discoverPromise, nextDelivery,
                 asked, emitted, connectError, apiError,
                 plain, wire, decoded>>

\* IpcClient.send(command, data, delivery)
SendDelivery(c, command, delivery) ==
  /\ CallFrame
  /\ PushUQ(c, prepareMsg4(Null, command, Payload[calls + 1], delivery), TRUE)
  /\ UNCHANGED <<bcast_queue, emptying_bcast_queue, bcastWriting>>
  /\ UNCHANGED <<is_discovering, deliveries, discoverPromise, nextDelivery,
                 asked, emitted, connectError, apiError,
                 plain, wire, decoded>>

\* IpcClient.emit(client_name, command, data)
EmitData(c, name, command, data) ==
  /\ CallFrame
  /\ PushBQ(c, prepareEnvelope(client_name[c], COMMAND_EMIT,
                               prepareMsg3(name, command, data), Null), TRUE)
  /\ emitted' = Append(emitted,
                       [from |-> c, name |-> name, command |-> command,
                        data |-> data,
                        online |-> \A x \in Clients : is_connected[x]])
  /\ UNCHANGED <<queue, emptying_queue, writing>>
  /\ UNCHANGED <<is_discovering, deliveries, discoverPromise, nextDelivery,
                 asked, connectError, apiError,
                 plain, wire, decoded>>

\* emit() with the payload of the call's rank
Emit(c, name, command) == EmitData(c, name, command, Payload[calls + 1])

\* IpcClient.broadcast(command, data)
Broadcast(c, command) ==
  /\ CallFrame
  /\ PushBQ(c, prepareEnvelope(client_name[c], COMMAND_BROADCAST,
                               prepareMsg2(command, Payload[calls + 1]),
                               Null), TRUE)
  /\ UNCHANGED <<queue, emptying_queue, writing>>
  /\ UNCHANGED <<is_discovering, deliveries, discoverPromise, nextDelivery,
                 asked, emitted, connectError, apiError,
                 plain, wire, decoded>>

\* IpcClient.discover()
\* A client that never takes a discovery for pending.
isDiscoveringNever(c) == FALSE

\* this._is_discovering
isDiscovering(c) == is_discovering[c]

Discover(c) ==
  /\ CallFrame
  /\ IF ~isDiscovering(c)
     THEN /\ is_discovering' = [is_discovering EXCEPT ![c] = TRUE]
          /\ discoverPromise' = [discoverPromise EXCEPT ![c] = "pending"]
          /\ PushBQ(c, prepareMsg3(client_name[c], COMMAND_DISCOVER, Null), FALSE)
     ELSE UNCHANGED <<is_discovering, discoverPromise, bcast_queue,
                      emptying_bcast_queue, bcastWriting>>
  /\ UNCHANGED <<queue, emptying_queue, writing>>
  /\ UNCHANGED <<deliveries, nextDelivery, asked, emitted, connectError, apiError,
                 plain, wire, decoded>>

\* IpcClient.deliver(client_name, command, data); name is Null for
\* deliver(command, data).
Deliver(c, name, command) ==
  /\ CallFrame
  /\ nextDelivery' = nextDelivery + 1
  /\ LET delivery == DeliveryName[nextDelivery + 1]
         data == Payload[calls + 1]
     IN /\ deliveries' = [deliveries EXCEPT ![c] = @ \cup {delivery}]
        /\ asked' = Put(asked, delivery,
                        [from |-> c, name |-> name, command |-> command,
                         online |-> \A x \in Clients : is_connected[x]])
        /\ IF name # Null
           THEN /\ PushBQ(c, prepareEnvelope(client_name[c], COMMAND_EMIT,
                               prepareMsg4(name, command, data, delivery),
                               delivery), FALSE)
                /\ UNCHANGED <<queue, emptying_queue, writing>>
           ELSE /\ PushUQ(c, prepareMsg4(Null, command, data, delivery), FALSE)
                /\ UNCHANGED <<bcast_queue, emptying_bcast_queue, bcastWriting>>
  /\ UNCHANGED <<is_discovering, discoverPromise, emitted, connectError, apiError,
                 plain, wire, decoded>>

\* ------------------------------------------------------ the socket writes
\* The write of the head of the unique queue completes: the frame is in the
\* channel and the callback runs.
WriteAck(c) ==
  /\ writing[c] = "pending"
  /\ uniqToSrv' = [uniqToSrv EXCEPT ![channel_id[c]] = Append(@, Head(queue[c]).msg)]
  /\ SetUQ(c, queueWriteCallback(is_connected[c], UQ(c)))
  /\ completed' = Resolved(c, "unique", Head(queue[c]))
  /\ wrote' = [wrote EXCEPT ![c].unique = Append(@, Written(Head(queue[c])))]
  /\ UNCHANGED <<bcast_queue, emptying_bcast_queue, bcastWriting>>
  /\ UNCHANGED <<bcastToSrv, bcastToCli, uniqToCli, uniqConnReq, bcastClosing,
                 uniqClosing>>
  /\ UNCHANGED <<connectPromise, discoverPromise, nextDelivery, nextMsg, calls,
                 drops, handled, returned, result,
                 asked, emitted, connectError, apiError,
                 plain, wire, decoded, written, lastError, forwards>>
  /\ UNCHANGED <<srvVars, connVars, cliVars>>

\* The same for the rendezvous queue.
BcastWriteAck(c) ==
  /\ bcastWriting[c] = "pending"
  /\ bcastToSrv' = [bcastToSrv EXCEPT
                      ![bcastPeer[c]] = Append(@, Head(bcast_queue[c]).msg)]
  /\ SetBQ(c, bcastWriteCallback(is_connected[c], BQ(c)))
  /\ completed' = Resolved(c, "bcast", Head(bcast_queue[c]))
  /\ wrote' = [wrote EXCEPT
                ![c].bcast = Append(@, Written(Head(bcast_queue[c])))]
  /\ UNCHANGED <<queue, emptying_queue, writing>>
  /\ UNCHANGED <<bcastToCli, uniqToSrv, uniqToCli, uniqConnReq, bcastClosing,
                 uniqClosing>>
  /\ UNCHANGED <<connectPromise, discoverPromise, nextDelivery, nextMsg, calls,
                 drops, handled, returned, result,
                 asked, emitted, connectError, apiError,
                 plain, wire, decoded, written, lastError, forwards>>
  /\ UNCHANGED <<srvVars, connVars, cliVars>>

\* The callback of a write whose socket was destroyed runs: the frame is not
\* in the channel.
StaleWriteCallback(c) ==
  /\ writing[c] = "stale"
  /\ SetUQ(c, queueWriteCallback(is_connected[c], UQ(c)))
  /\ completed' = Resolved(c, "unique", Head(queue[c]))
  /\ UNCHANGED wrote
  /\ UNCHANGED <<bcast_queue, emptying_bcast_queue, bcastWriting>>
  /\ UNCHANGED <<connectPromise, discoverPromise, nextDelivery, nextMsg, calls,
                 drops, handled, returned, result,
                 asked, emitted, connectError, apiError,
                 plain, wire, decoded, written, lastError, forwards>>
  /\ UNCHANGED <<srvVars, chanVars, connVars, cliVars>>

StaleBcastWriteCallback(c) ==
  /\ bcastWriting[c] = "stale"
  /\ SetBQ(c, bcastWriteCallback(is_connected[c], BQ(c)))
  /\ completed' = Resolved(c, "bcast", Head(bcast_queue[c]))
  /\ UNCHANGED wrote
  /\ UNCHANGED <<queue, emptying_queue, writing>>
  /\ UNCHANGED <<connectPromise, discoverPromise, nextDelivery, nextMsg, calls,
                 drops, handled, returned, result,
                 asked, emitted, connectError, apiError,
                 plain, wire, decoded, written, lastError, forwards>>
  /\ UNCHANGED <<srvVars, chanVars, connVars, cliVars>>

\* ------------------------------------------------------------------- Next
\* The bounds of a run: uuidV4() results, transport failures, enqueueing
\* calls and deliver() calls.
MoreUuids == nextUuid < MaxUuid
MoreDrops == drops < MaxDrops
MoreCalls == calls < MaxCalls
MoreDeliveries == nextDelivery < MaxDeliveries

\* The server's steps and the connection steps of client c.
ServerConnStep ==
  \/ ServerStart
  \/ \E u \in Uuids : ServerBcastData(u)
  \/ \E u \in Uuids : ServerBcastClose(u)
  \/ \E u \in Uuids : ServerUniqueCreation(u)
  \/ \E u \in Uuids : ServerUniqueClose(u)

ServerStep ==
  \/ ServerConnStep
  \/ \E u \in Uuids, r \in RetValues : ServerUniqueData(u, r)

ConnectionStep(c) ==
  \/ MoreUuids /\ ServerBcastCreation(c)
  \/ Connect(c)
  \/ ClientBcastConnect(c)
  \/ ClientBcastData(c)
  \/ ClientUniqueConnect(c)
  \/ BcastConnectError(c)
  \/ StaleClose(c)
  \/ ReconnectTimer(c)

QueueStep(c) ==
  \/ \E r \in RetValues : ClientUniqueData(c, r)
  \/ WriteAck(c)
  \/ BcastWriteAck(c)
  \/ StaleWriteCallback(c)
  \/ StaleBcastWriteCallback(c)

Next ==
  \/ ServerStep
  \/ \E c \in Clients : ConnectionStep(c)
  \/ \E c \in Clients : QueueStep(c)
  \/ \E c \in Clients : MoreDrops /\ SocketError(c)
  \/ \E c \in Clients : ConnectThrows(c)
  \/ \E n \in Names, k \in Commands : MoreCalls /\ ServerEmit(n, k)
  \/ \E n \in Names \cup {Null}, k \in Commands :
       MoreCalls /\ ServerBroadcast(k, n)
  \/ \E c \in Clients, k \in Commands : MoreCalls /\ Send(c, k)
  \/ \E c \in Clients, n \in Names, k \in Commands : MoreCalls /\ Emit(c, n, k)
  \/ \E c \in Clients, k \in Commands : MoreCalls /\ Broadcast(c, k)
  \/ \E c \in Clients : MoreCalls /\ Discover(c)
  \/ \E c \in Clients, n \in Names \cup {Null}, k \in Commands :
       MoreCalls /\ MoreDeliveries /\ Deliver(c, n, k)

Spec == Init /\ [][Next]_vars

\* The connection scenario: the clients connect, lose their connections and
\* reconnect; no application frame is sent.
ConnNext ==
  \/ ServerConnStep
  \/ \E c \in Clients : ConnectionStep(c)
  \/ \E c \in Clients : MoreDrops /\ SocketError(c)

SpecConn == Init /\ [][ConnNext]_vars

\* The queue scenario: client c1 alone, named "a", uses its two queues
\* across a loss of its connection.
InitQueue == Init /\ client_name["c2"] = "b"

MoreQueueCalls == calls < QueueCalls

QueueNext ==
  \/ ServerStep
  \/ ConnectionStep("c1")
  \/ QueueStep("c1")
  \/ drops < QueueDrops /\ SocketError("c1")
  \/ MoreQueueCalls /\ Send("c1", "ping")
  \/ MoreQueueCalls /\ Emit("c1", "b", "ping")
  \/ MoreQueueCalls /\ Broadcast("c1", "ping")
  \/ MoreQueueCalls /\ Discover("c1")
  \/ \E n \in {"b", Null} :
       MoreQueueCalls /\ MoreDeliveries /\ Deliver("c1", n, "ping")

SpecQueue == InitQueue /\ [][QueueNext]_vars

\* The FIFO scenario: client c1 alone enqueues on its two queues, with
\* completion signals, across losses of its connection.
FifoNext ==
  \/ ServerStep
  \/ ConnectionStep("c1")
  \/ QueueStep("c1")
  \/ drops < QueueDrops /\ SocketError("c1")
  \/ MoreQueueCalls /\ Send("c1", "ping")
  \/ MoreQueueCalls /\ Emit("c1", "a", "ping")

SpecFifo == InitQueue /\ [][FifoNext]_vars

\* The relay scenario: clients c1 "a" and c2 "b" stay connected once they
\* are; c1 asks the server and c2 for deliveries, broadcasts and emits.
MoreRelayCalls == calls < RelayCalls

RelayStep(c) ==
  \/ MoreUuids /\ ServerBcastCreation(c)
  \/ Connect(c)
  \/ ClientBcastConnect(c)
  \/ ClientBcastData(c)
  \/ ClientUniqueConnect(c)
  \/ \E r \in RetValues : ClientUniqueData(c, r)
  \/ WriteAck(c)
  \/ BcastWriteAck(c)

RelayNext ==
  \/ ServerStart
  \/ \E u \in Uuids : ServerBcastData(u)
  \/ \E u \in Uuids : ServerUniqueCreation(u)
  \/ \E u \in Uuids, r \in RetValues : ServerUniqueData(u, r)
  \/ \E c \in Clients : RelayStep(c)
  \/ MoreRelayCalls /\ Broadcast("c1", "ping")
  \/ MoreRelayCalls /\ Emit("c1", "b", "ping")
  \/ \E n \in {"b", Null}, k \in Commands :
       MoreRelayCalls /\ MoreDeliveries /\ Deliver("c1", n, k)

SpecRelay == InitQueue /\ [][RelayNext]_vars

\* The dispatch scenario: client c1 "a", connected for good, sends frames
\* to the server and asks the server and itself for deliveries.
MoreDispatchCalls == calls < DispatchCalls

DispatchNext ==
  \/ ServerStart
  \/ \E u \in Uuids : ServerBcastData(u)
  \/ \E u \in Uuids : ServerUniqueCreation(u)
  \/ \E u \in Uuids, r \in RetValues : ServerUniqueData(u, r)
  \/ RelayStep("c1")
  \/ \E k \in Commands : MoreDispatchCalls /\ Send("c1", k)
  \/ \E n \in {"a", Null}, k \in Commands :
       MoreDispatchCalls /\ MoreDeliveries /\ Deliver("c1", n, k)

SpecDispatch == InitQueue /\ [][DispatchNext]_vars

\* The emit scenario: clients c1 "a" and c2 "b" connect and stay connected;
\* c1 emits to "b", with data of its choice.
EmitValues == {Payload[1], "0"}

MoreEmitCalls == calls < EmitCalls

EmitStep(c) ==
  \/ MoreUuids /\ ServerBcastCreation(c)
  \/ Connect(c)
  \/ ClientBcastConnect(c)
  \/ ClientBcastData(c)
  \/ ClientUniqueConnect(c)
  \/ \E r \in RetValues : ClientUniqueData(c, r)
  \/ BcastWriteAck(c)

EmitNext ==
  \/ ServerStart
  \/ \E u \in Uuids : ServerBcastData(u)
  \/ \E u \in Uuids : ServerUniqueCreation(u)
  \/ \E c \in Clients : EmitStep(c)
  \/ \E k \in Commands, d \in EmitValues :
       MoreEmitCalls /\ EmitData("c1", "b", k, d)

SpecEmit == InitQueue /\ [][EmitNext]_vars

\* The discover scenario: the clients connect and stay connected, and ask
\* the server what it knows, time and again.
MoreDiscoverCalls == calls < DiscoverCalls

DiscoverStep(c) ==
  \/ MoreUuids /\ ServerBcastCreation(c)
  \/ Connect(c)
  \/ ClientBcastConnect(c)
  \/ ClientBcastData(c)
  \/ ClientUniqueConnect(c)
  \/ BcastWriteAck(c)
  \/ MoreDiscoverCalls /\ Discover(c)

DiscoverNext ==
  \/ ServerStart
  \/ \E u \in Uuids : ServerBcastData(u)
  \/ \E u \in Uuids : ServerUniqueCreation(u)
  \/ \E c \in Clients : DiscoverStep(c)

SpecDiscover == InitQueue /\ [][DiscoverNext]_vars

\* The connect scenario: client c1 connects, loses its connection and
\* reconnects, and its application calls connect() at any time.
ConnectNext ==
  \/ ServerConnStep
  \/ ConnectionStep("c1")
  \/ MoreDrops /\ SocketError("c1")
  \/ ConnectThrows("c1")

SpecConnect == InitQueue /\ [][ConnectNext]_vars

\* The server API scenario: clients c1 "a" and c2 "b" connect, c2 may lose
\* its connection and does not come back in the time observed, and the
\* server's application emits "ping" and broadcasts "nop".
MoreServerCalls == calls < ServerCalls

ServerApiStep(c) ==
  \/ MoreUuids /\ ServerBcastCreation(c)
  \/ Connect(c)
  \/ ClientBcastConnect(c)
  \/ ClientBcastData(c)
  \/ ClientUniqueConnect(c)
  \/ \E r \in RetValues : ClientUniqueData(c, r)

ServerApiNext ==
  \/ ServerConnStep
  \/ \E c \in Clients : ServerApiStep(c)
  \/ SocketError("c2")
  \/ StaleClose("c2")
  \/ \E n \in Names : MoreServerCalls /\ ServerEmit(n, "ping")
  \/ \E n \in Names \cup {Null} :
       MoreServerCalls /\ ServerBroadcast("nop", n)

SpecServerApi == InitQueue /\ [][ServerApiNext]_vars

\* The throwing-handler scenario: client c1 "a", connected for good, sends
\* frames to the server and asks the server and itself for deliveries; a
\* handler returns or throws.
ThrowNext ==
  \/ ServerStart
  \/ \E u \in Uuids : ServerBcastData(u)
  \/ \E u \in Uuids : ServerUniqueCreation(u)
  \/ \E u \in Uuids, r \in Outcomes : ServerUniqueData(u, r)
  \/ MoreUuids /\ ServerBcastCreation("c1")
  \/ Connect("c1")
  \/ ClientBcastConnect("c1")
  \/ ClientBcastData("c1")
  \/ ClientUniqueConnect("c1")
  \/ \E r \in Outcomes : ClientUniqueData("c1", r)
  \/ WriteAck("c1")
  \/ BcastWriteAck("c1")
  \/ \E k \in Commands : MoreDispatchCalls /\ Send("c1", k)
  \/ \E n \in {"a", Null}, k \in Commands :
       MoreDispatchCalls /\ MoreDeliveries /\ Deliver("c1", n, k)

SpecThrow == InitQueue /\ [][ThrowNext]_vars

\* The malformed-envelope scenario: clients c1 "a" and c2 "b" connect and
\* stay connected; the peer at c1's rendezvous socket writes broadcast and
\* emit envelopes without an inner frame, and c1 broadcasts.
MoreRawWrites == calls < RawWrites

RawNext ==
  \/ ServerStart
  \/ \E u \in Uuids : ServerBcastData(u)
  \/ \E u \in Uuids : ServerUniqueCreation(u)
  \/ \E c \in Clients : EmitStep(c)
  \/ MoreRawWrites /\ Broadcast("c1", "nop")
  \/ \E k \in {COMMAND_BROADCAST, COMMAND_EMIT}, d \in BadData,
        y \in {Null, DeliveryName[1]} :
       MoreRawWrites /\ RawBcastWrite("c1", k, d, y)

SpecRaw == InitQueue /\ [][RawNext]_vars

\* The codec scenario: a sender encodes one to MaxFrames messages and
\* writes them one after the other; the receiver's socket delivers the
\* stream in data events of any size.
PlainSeqs == UNION {[1..n -> Messages] : n \in 1..MaxFrames}

InitCodec ==
  /\ InitProgram
  /\ client_name["c2"] = "b"
  /\ plain \in PlainSeqs
  /\ wire = encodeAll(plain)
  /\ decoded = <<>>

CodecNext == \E n \in 1..(MaxFrames * FrameBytes) : SocketData(n)

SpecCodec == InitCodec /\ [][CodecNext]_vars

\* The promise scenario: client c1 "a", connected for good, asks the server
\* and itself for deliveries; a handler returns a value or a promise that
\* is still pending.
PromiseNext ==
  \/ ServerStart
  \/ \E u \in Uuids : ServerBcastData(u)
  \/ \E u \in Uuids : ServerUniqueCreation(u)
  \/ \E u \in Uuids, r \in RetValues \cup {Promise} : ServerUniqueData(u, r)
  \/ MoreUuids /\ ServerBcastCreation("c1")
  \/ Connect("c1")
  \/ ClientBcastConnect("c1")
  \/ ClientBcastData("c1")
  \/ ClientUniqueConnect("c1")
  \/ \E r \in RetValues \cup {Promise} : ClientUniqueData("c1", r)
  \/ WriteAck("c1")
  \/ BcastWriteAck("c1")
  \/ \E n \in {"a", Null}, k \in Commands :
       MoreDispatchCalls /\ MoreDeliveries /\ Deliver("c1", n, k)

SpecPromise == InitQueue /\ [][PromiseNext]_vars

\* The registration scenario: the applications of the server and of client
\* c1 call start() and addHandlers() at any time, with handlers h and h2.
ApiNext ==
  \/ ServerStart
  \/ ServerStartThrows
  \/ \E who \in {"server", "c1"}, k \in Commands \cup Restricted,
        h \in HandlerIds : AddHandlers(who, k, h)

SpecApi == InitQueue /\ [][ApiNext]_vars

\* The offline scenario: client c1 alone asks the server for a delivery and
\* for what it knows, across a loss of its connection.
OfflineNext ==
  \/ ServerStep
  \/ ConnectionStep("c1")
  \/ QueueStep("c1")
  \/ drops < QueueDrops /\ SocketError("c1")
  \/ MoreQueueCalls /\ MoreDeliveries /\ Deliver("c1", Null, "ping")
  \/ MoreQueueCalls /\ Discover("c1")

SpecOffline == InitQueue /\ [][OfflineNext]_vars

\* The delivery scenario: clients c1 "a" and c2 "b" connect and stay
\* connected; c1 asks "b", or a client "c" that does not exist, for a
\* delivery, and the application of c2 sends a delivery frame of its own
\* with the id of c1's request.
MoreDeliveryCalls == calls < DeliveryCalls
MoreReplies == nextMsg < MaxReplies

DeliveryStep(c) ==
  \/ MoreUuids /\ ServerBcastCreation(c)
  \/ Connect(c)
  \/ ClientBcastConnect(c)
  \/ ClientBcastData(c)
  \/ ClientUniqueConnect(c)
  \/ \E r \in RetValues : MoreReplies /\ ClientUniqueData(c, r)
  \/ WriteAck(c)
  \/ BcastWriteAck(c)

DeliveryNext ==
  \/ ServerStart
  \/ \E u \in Uuids : ServerBcastData(u)
  \/ \E u \in Uuids : ServerUniqueCreation(u)
  \/ \E u \in Uuids, r \in RetValues : ServerUniqueData(u, r)
  \/ \E c \in Clients : DeliveryStep(c)
  \/ \E n \in {"b", "c"} :
       MoreDeliveryCalls /\ MoreDeliveries /\ Deliver("c1", n, "ping")
  \/ MoreDeliveryCalls
       /\ SendDelivery("c2", COMMAND_DELIVER, DeliveryName[1])

SpecDelivery == InitQueue /\ [][DeliveryNext]_vars

\* The confirmation scenario: client c1 "a", connected for good, calls
\* send() with a delivery id of its own, for "ping" or for a delivery
\* frame.
ConfirmNext ==
  \/ ServerStart
  \/ \E u \in Uuids : ServerBcastData(u)
  \/ \E u \in Uuids : ServerUniqueCreation(u)
  \/ \E u \in Uuids, r \in RetValues : ServerUniqueData(u, r)
  \/ MoreUuids /\ ServerBcastCreation("c1")
  \/ Connect("c1")
  \/ ClientBcastConnect("c1")
  \/ ClientBcastData("c1")
  \/ ClientUniqueConnect("c1")
  \/ \E r \in RetValues : MoreReplies /\ ClientUniqueData("c1", r)
  \/ WriteAck("c1")
  \/ \E k \in {"ping", COMMAND_DELIVER} :
       MoreDeliveryCalls /\ SendDelivery("c1", k, DeliveryName[1])

SpecConfirm == InitQueue /\ [][ConfirmNext]_vars

\* The collection scenario: the applications of the server and of client
\* c1 call addHandlers() with collections of two entries, at any time.
CollectionNext ==
  \E who \in {"server", "c1"}, coll \in Collections :
    AddHandlerCollection(who, coll)

SpecCollection == InitQueue /\ [][CollectionNext]_vars

\* ------------------------------------------------------------ properties
\* C1: in every reachable server state the name registry maps each
\* registered name to exactly one client record, that record carries the
\* name, and no two client records carry the same name.
C1_NameUniqueness ==
  /\ \A n \in DOMAIN name_registry :
       /\ name_registry[n] \in DOMAIN uuid_registry
       /\ uuid_registry[name_registry[n]].name = n
  /\ \A u \in DOMAIN uuid_registry :
       uuid_registry[u].name # Undef =>
         /\ uuid_registry[u].name \in DOMAIN name_registry
         /\ name_registry[uuid_registry[u].name] = u
  /\ \A u, v \in DOMAIN uuid_registry :
       (u # v /\ uuid_registry[u].name # Undef) =>
         uuid_registry[u].name # uuid_registry[v].name

\* Two clients of one name: after a disconnection the name is registered
\* again, under a later uuid, and a handshake for it has been refused.
C1_Witness ==
  /\ client_name["c1"] = client_name["c2"]
  /\ drops > 0
  /\ "a" \in DOMAIN name_registry
  /\ name_registry["a"] # "u1"
  /\ uuid_registry[name_registry["a"]].socket = "open"
  /\ \E c \in Clients : lastError[c] = ToString(E_CLIENT_NAME_TAKEN)

\* C2: the frames send() enqueued while the client was not connected are
\* written to the unique socket once the client is Connected: while it is
\* connected and holds such a frame a write is under way, such a frame
\* leaves the queue only written to the server, and the server's handler
\* sees the frames in the order of the calls.
C2_OfflineSendsWritten ==
  /\ \A c \in Clients :
       /\ (is_connected[c] /\ \E i \in DOMAIN queue[c] : queue[c][i].off)
            => writing[c] = "pending"
       /\ \A i \in DOMAIN completed[c].unique :
            completed[c].unique[i].off =>
              \E j \in DOMAIN wrote[c].unique :
                wrote[c].unique[j] = completed[c].unique[i]
  /\ \A i, j \in DOMAIN handled :
       (i < j /\ handled[i].at = "server" /\ handled[j].at = "server") =>
         \E k, l \in DOMAIN Payload :
           k < l /\ Payload[k] = handled[i].data /\ Payload[l] = handled[j].data

\* C3: the frames enqueued on the rendezvous queue while the client was not
\* connected are written once the client is Connected, no further call
\* being needed: while it is connected and holds such a frame, a write to
\* the rendezvous socket is under way.
C3_BcastQueueDrains ==
  \A c \in Clients :
    (is_connected[c] /\ \E i \in DOMAIN bcast_queue[c] : bcast_queue[c][i].off)
      => bcastWriting[c] = "pending"

\* C4: an entry leaves a client queue and its completion signal fires only
\* after its frame has been written to the socket; after a connection lost
\* with the write of the head under way, the entry is written again on
\* reconnection: a connected client whose queue is marked as being emptied
\* has a write under way.
C4_CompletionAfterWrite ==
  \A c \in Clients :
    /\ \A which \in {"unique", "bcast"} :
         \A i \in DOMAIN completed[c][which] :
           \E j \in DOMAIN wrote[c][which] :
             wrote[c][which][j].seq = completed[c][which][i].seq
    /\ (is_connected[c] /\ emptying_queue[c]) => writing[c] = "pending"
    /\ (is_connected[c] /\ emptying_bcast_queue[c])
         => bcastWriting[c] = "pending"

\* C5: for each queue of a client taken alone, the completion signals fire
\* in the order the entries were enqueued.
C5_CompletionOrder ==
  \A c \in Clients, which \in {"unique", "bcast"} :
    \A i, j \in DOMAIN completed[c][which] :
      i < j => completed[c][which][i].seq < completed[c][which][j].seq

\* Two send() calls made while offline have completed, after a
\* disconnection.
C5_Witness ==
  /\ Len(completed["c1"].unique) = 2
  /\ completed["c1"].unique[1].off
  /\ completed["c1"].unique[2].off
  /\ drops = 1

\* C6: a completed deliver() holds the value the callee's handler returned
\* for that request, and null when it returned nothing or no handler is
\* registered.
C6_DeliverValue ==
  \A d \in DOMAIN result :
    /\ d \in DOMAIN returned
    /\ result[d] = IF returned[d] = Undef THEN Null ELSE returned[d]

\* C7: c1.deliver("b", command, data), called with both clients connected,
\* completes only with what the handler of the client named "b" returned:
\* the request reached that client with the delivery id and its reply came
\* back to c1 under the same id.
C7_NamedDeliverValue ==
  \A d \in DOMAIN result :
    (asked[d].name # Null /\ asked[d].online) =>
      /\ d \in DOMAIN returned
      /\ asked[d].command \in DOMAIN cli_handlers["c2"] =>
           \E i \in DOMAIN handled :
             /\ handled[i].at = "c2"
             /\ handled[i].command = asked[d].command
      /\ result[d] = IF returned[d] = Undef THEN Null ELSE returned[d]

\* C8: the server writes a client's broadcast to the unique sockets of the
\* other clients and never to the unique socket of the client it came from.
C8_BroadcastExclusion ==
  \A w \in written : w[1] # w[2]

\* C9: with the server running and no other client of its name, a client
\* that lost its connection is on its way back to Connected: its reconnect
\* timer is set, or a connect is under way, or a frame of its handshake is
\* still to be read.
C9_ReconnectUnderWay ==
  \A c \in Clients :
    (/\ is_started
     /\ drops > 0
     /\ connectPromise[c] # "none"
     /\ ~is_connected[c]
     /\ \A x \in Clients \ {c} : client_name[x] # client_name[c])
    => \/ offlinePollingFn[c] = "armed"
       \/ bcastSocket[c] = "connecting"
       \/ uniqueSocket[c] = "connecting"
       \/ /\ bcastSocket[c] = "open"
          /\ \/ bcastToSrv[bcastPeer[c]] # <<>>
             \/ bcastToCli[bcastPeer[c]] # <<>>

\* C10: the promise connect() returned is resolved whenever the client is
\* Connected, also when the first attempt found no server.
C10_ConnectCompletes ==
  \A c \in Clients : is_connected[c] => connectPromise[c] = "resolved"

\* C11: the server removes a client's record when either of the client's
\* sockets has disconnected, also when the rendezvous socket dropped before
\* the unique connection was accepted: a record that still carries its name
\* belongs to a connection that is up or whose close event is still to be
\* handled.
C11_RecordRemoved ==
  \A u \in DOMAIN uuid_registry :
    uuid_registry[u].name # Undef =>
      \/ \E c \in Clients : bcastPeer[c] = u
      \/ u \in bcastClosing
      \/ u \in uniqClosing

\* C12: a handshake for a name the registry holds is answered on its
\* rendezvous socket with the frame {id: name, command: "error", data: 201}
\* and changes nothing else: the name registry, the client records with
\* their unique listeners and every other socket are as before.
C12_NameTakenRefused ==
  [][\A u \in Uuids :
       (/\ u \in bcast_registry
        /\ bcastToSrv[u] # <<>>
        /\ bcastToSrv'[u] = Tail(bcastToSrv[u])
        /\ Head(bcastToSrv[u]).command = COMMAND_HANDSHAKE
        /\ Head(bcastToSrv[u]).data \in DOMAIN name_registry)
       => /\ u \notin bcastClosing =>
               bcastToCli'[u] =
                 Append(bcastToCli[u],
                        [id |-> Head(bcastToSrv[u]).data,
                         command |-> "error", data |-> "201",
                         delivery |-> Null, inner |-> NoInner])
          /\ \A v \in Uuids \ {u} : bcastToCli'[v] = bcastToCli[v]
          /\ UNCHANGED <<name_registry, uuid_registry, delivery_registry,
                         bcast_registry, uniqToSrv, uniqToCli, uniqConnReq>>]_vars

\* A client whose handshake was refused: it has read the error frame on a
\* rendezvous connection the server keeps no record of, while the name is
\* registered to another connection.
C12_Witness ==
  \E c \in Clients :
    /\ lastError[c] = "201"
    /\ bcastSocket[c] = "open"
    /\ bcastPeer[c] \notin DOMAIN uuid_registry
    /\ bcastToSrv[bcastPeer[c]] = <<>>
    /\ bcastToCli[bcastPeer[c]] = <<>>
    /\ client_name[c] \in DOMAIN name_registry
    /\ name_registry[client_name[c]] # bcastPeer[c]

\* C13: of two clients that ask for the same name, the one whose handshake
\* the server handles second is sent the 201 error frame and does not
\* reach Connected: the two are never connected together, and while x
\* holds the name, a client c whose handshake the server has read is not
\* connected, opens no unique socket and has the error frame.
C13_SecondRefused ==
  \A c, x \in Clients :
    (c # x /\ client_name[c] = client_name[x]) =>
      /\ ~(is_connected[c] /\ is_connected[x])
      /\ (/\ client_name[x] \in DOMAIN name_registry
          /\ name_registry[client_name[x]] = bcastPeer[x]
          /\ bcastSocket[c] = "open"
          /\ bcastToSrv[bcastPeer[c]] = <<>>)
         => /\ ~is_connected[c]
            /\ uniqueSocket[c] = "null"
            /\ \/ lastError[c] = "201"
               \/ \E i \in DOMAIN bcastToCli[bcastPeer[c]] :
                    /\ bcastToCli[bcastPeer[c]][i].command = COMMAND_ERROR
                    /\ bcastToCli[bcastPeer[c]][i].data = "201"

\* Both clients ask for "a": one is connected under it, the other has read
\* the error frame on its open rendezvous socket.
C13_Witness ==
  \E c, x \in Clients :
    /\ c # x
    /\ client_name[c] = client_name[x]
    /\ is_connected[x]
    /\ name_registry[client_name[x]] = channel_id[x]
    /\ bcastSocket[c] = "open"
    /\ bcastToCli[bcastPeer[c]] = <<>>
    /\ lastError[c] = "201"
    /\ ~is_connected[c]

C15_ReplyIffDelivery ==
  [][\A u \in Uuids :
       (/\ u \in DOMAIN uuid_registry
        /\ uniqToSrv[u] # <<>>
        /\ uniqToSrv'[u] = Tail(uniqToSrv[u])
        /\ u \notin uniqClosing
        /\ ~(/\ Head(uniqToSrv[u]).command = COMMAND_DELIVER
             /\ Head(uniqToSrv[u]).delivery \in DOMAIN delivery_registry))
       => LET f == Head(uniqToSrv[u])
          IN /\ \A v \in Uuids \ {u} : uniqToCli'[v] = uniqToCli[v]
             /\ IF f.delivery # Null
                THEN /\ Len(uniqToCli'[u]) = Len(uniqToCli[u]) + 1
                     /\ SubSeq(uniqToCli'[u], 1, Len(uniqToCli[u]))
                          = uniqToCli[u]
                     /\ uniqToCli'[u][Len(uniqToCli'[u])].command
                          = COMMAND_DELIVER
                     /\ uniqToCli'[u][Len(uniqToCli'[u])].delivery
                          = f.delivery
                ELSE uniqToCli'[u] = uniqToCli[u]]_vars

\* A deliver() to the server has been answered and completed, and a send()
\* has been handled without an answer.
C15_Witness ==
  /\ \E d \in DOMAIN result : asked[d].name = Null
  /\ \E i \in DOMAIN handled :
       \A d \in DOMAIN asked : handled[i].command # asked[d].command
  /\ \A u \in Uuids : uniqToSrv[u] = <<>> /\ uniqToCli[u] = <<>>

\* No frame is queued, being written or in a channel.
Quiescent ==
  /\ \A c \in Clients :
       /\ queue[c] = <<>> /\ bcast_queue[c] = <<>>
       /\ writing[c] = "none" /\ bcastWriting[c] = "none"
  /\ \A u \in Uuids :
       /\ bcastToSrv[u] = <<>> /\ bcastToCli[u] = <<>>
       /\ uniqToSrv[u] = <<>> /\ uniqToCli[u] = <<>>

\* C16: c1.emit("b", command, data), called with c1 and c2 "b" connected,
\* makes c2's handler for the command run exactly once with that data, and
\* makes no other handler run, at another client or at the server: once
\* every frame has been delivered, the handler invocations are those of
\* the emits, in order.
C16_EmitHandledOnce ==
  (Quiescent /\ \A i \in DOMAIN emitted : emitted[i].online) =>
    LET sel == SelectSeq(emitted,
                         LAMBDA e : e.command \in DOMAIN cli_handlers["c2"])
    IN handled = [i \in 1..Len(sel) |->
                    [at |-> "c2", command |-> sel[i].command,
                     data |-> sel[i].data, name |-> "b"]]

\* C17: while the result of a discover() is pending, a further discover()
\* enqueues no request and returns that pending result; once the result
\* has completed (or before the first call), discover() enqueues one new
\* discover request and returns a new pending result.
C17_DiscoverShared ==
  [][\A c \in Clients :
       Discover(c) =>
         IF discoverPromise[c] = "pending"
         THEN /\ bcast_queue'[c] = bcast_queue[c]
              /\ bcastToSrv' = bcastToSrv
              /\ discoverPromise'[c] = "pending"
         ELSE /\ Len(bcast_queue'[c]) = Len(bcast_queue[c]) + 1
              /\ SubSeq(bcast_queue'[c], 1, Len(bcast_queue[c]))
                   = bcast_queue[c]
              /\ bcast_queue'[c][Len(bcast_queue'[c])].msg.command
                   = COMMAND_DISCOVER
              /\ discoverPromise'[c] = "pending"]_vars

\* Three discover() calls of c1: the second while the first was pending,
\* the third after its result had completed and itself completed.
C17_Witness ==
  /\ calls = 3
  /\ Len(wrote["c1"].bcast) = 2
  /\ discoverPromise["c1"] = "resolved"
  /\ discoverPromise["c2"] = "none"

\* C18: a connect() call made while the client is connecting or connected
\* throws and changes nothing of the client: no socket is spawned, and the
\* flags, the queues, the pending deliveries and discovery and the result
\* of the first connect() are as before the call.
C18_ConnectRejected ==
  [][\A c \in Clients :
       (/\ is_connecting[c] \/ is_connected[c]
        /\ Connect(c) \/ ConnectThrows(c))
       => /\ connectError'[c]
          /\ UNCHANGED <<connVars, queueVars, cliVars, connectPromise,
                         discoverPromise>>]_vars

\* A connect() call of c1 has thrown, and c1 is connected with the result
\* of its first connect() completed.
C18_Witness ==
  /\ connectError["c1"]
  /\ is_connected["c1"]
  /\ uniqueSocket["c1"] = "open"
  /\ connectPromise["c1"] = "resolved"

\* C19: server.emit(name, command, data) appends exactly one frame, with
\* that command and data, to the unique socket of the client registered
\* under name when the server holds that socket and it is open; for an
\* unknown name, a name whose unique connection is not accepted yet or a
\* closed socket it writes nothing; in every case it leaves the server's
\* registries and the other sockets as they are.
C19_ServerEmit ==
  [][\A n \in Names, k \in Commands :
       ServerEmit(n, k) =>
         LET present == /\ n \in DOMAIN name_registry
                        /\ name_registry[n] \in DOMAIN uuid_registry
                        /\ uuid_registry[name_registry[n]].socket = "open"
         IN /\ UNCHANGED <<srvVars, bcastToCli>>
            /\ IF present
               THEN LET u == name_registry[n]
                    IN /\ \A v \in Uuids \ {u} : uniqToCli'[v] = uniqToCli[v]
                       /\ u \notin uniqClosing =>
                            uniqToCli'[u] =
                              Append(uniqToCli[u],
                                     [id |-> Null, command |-> k,
                                      data |-> Payload[calls + 1],
                                      delivery |-> Null, inner |-> NoInner])
               ELSE uniqToCli' = uniqToCli]_vars

\* The frame of a server.emit("b", "ping", data) is on its way to c2, and
\* no frame to c1.
C19_Witness ==
  /\ is_connected["c1"] /\ is_connected["c2"]
  /\ uniqToCli[channel_id["c2"]] # <<>>
  /\ Head(uniqToCli[channel_id["c2"]]).command = "ping"
  /\ uniqToCli[channel_id["c1"]] = <<>>

\* C20: server.broadcast(command, data, initiator) appends exactly one
\* frame to the unique socket of every client whose unique connection the
\* server holds open, except the client registered under the name
\* initiator; without initiator it leaves no such client out. It writes to
\* no other socket.
C20_ServerBroadcast ==
  [][\A n \in Names \cup {Null}, k \in Commands :
       ServerBroadcast(k, n) =>
         \A u \in Uuids :
           LET connected == /\ u \in DOMAIN uuid_registry
                            /\ uuid_registry[u].socket = "open"
                            /\ u \notin uniqClosing
               initiator == /\ n # Null
                            /\ n \in DOMAIN name_registry
                            /\ name_registry[n] = u
           IN uniqToCli'[u] =
                IF connected /\ ~initiator
                THEN Append(uniqToCli[u],
                            [id |-> Null, command |-> k,
                             data |-> Payload[calls + 1],
                             delivery |-> Null, inner |-> NoInner])
                ELSE uniqToCli[u]]_vars

\* One server.broadcast("nop", data, "a") with c1 "a" and c2 connected: its
\* frame is on its way to c2 and none to c1.
C20_Witness ==
  /\ calls = 1
  /\ is_connected["c1"] /\ is_connected["c2"]
  /\ uuid_registry[channel_id["c1"]].socket = "open"
  /\ uniqToCli[channel_id["c2"]] # <<>>
  /\ Head(uniqToCli[channel_id["c2"]]).command = "nop"
  /\ uniqToCli[channel_id["c1"]] = <<>>

\* C21: a handler that throws leaves the server's name, uuid and delivery
\* registries, and the client's two queues and pending deliveries, as a
\* handler that returns would: the registries, the rendezvous queue and the
\* pending deliveries as they were, and the unique queue with the delivery
\* reply appended when the frame carried a delivery id.
C21_HandlerThrow ==
  [][/\ \A u \in Uuids :
          ServerUniqueData(u, Throw) =>
            UNCHANGED <<name_registry, uuid_registry, delivery_registry>>
     /\ \A c \in Clients :
          ClientUniqueData(c, Throw) =>
            LET message == parseEntry(Head(uniqToCli[channel_id[c]]))
                n == Len(queue[c])
            IN /\ UNCHANGED <<deliveries, bcast_queue>>
               /\ IF message.delivery # Null
                  THEN /\ Len(queue'[c]) = n + 1
                       /\ SubSeq(queue'[c], 1, n) = queue[c]
                       /\ queue'[c][n + 1].msg.command = COMMAND_DELIVER
                       /\ queue'[c][n + 1].msg.delivery = message.delivery
                  ELSE queue'[c] = queue[c]]_vars

\* C22: a broadcast or emit envelope read from a rendezvous socket whose
\* data is not the text of a frame is discarded: the server's registries
\* stay as they are, nothing is written to a client, and the frames that
\* follow it in the read stay to be processed.
C22_MalformedDiscarded ==
  [][\A u \in Uuids :
       (/\ ServerBcastData(u)
        /\ Head(bcastToSrv[u]).command \in {COMMAND_BROADCAST, COMMAND_EMIT}
        /\ Head(bcastToSrv[u]).data # JsonFrame)
       => /\ UNCHANGED <<name_registry, uuid_registry, delivery_registry>>
          /\ UNCHANGED <<uniqToCli, bcastToCli>>
          /\ bcastToSrv'[u] = Tail(bcastToSrv[u])]_vars

\* The four fields of a decoded frame.
Fields(f) ==
  [id |-> f.id, command |-> f.command, data |-> f.data,
   delivery |-> f.delivery]

\* C23: decoding the encoding of a message m gives the one-element list
\* [m], whatever JSON value its data is.
C23_RoundTrip ==
  (Len(plain) = 1 /\ wire = <<>> /\ Len(decoded) = 1) =>
    Fields(decoded[1]) = plain[1]

\* C24: once the stream of a sequence of frames has been read, in data
\* events of any size, the receiver has decoded the frames it decodes from
\* the stream read at once, in the same order: a frame cut by a read is
\* neither dropped nor turned into an error frame.
C24_Reassembly ==
  wire = <<>> => decoded = parseMsg(encodeAll(plain))

\* C25: when the handler run for a frame with a delivery id returns a
\* promise, no delivery reply for that id is sent while the promise is
\* pending: none is in a queue or on its way, and the deliver() of that id
\* has not completed.
C25_ReplyAfterSettle ==
  \A d \in DOMAIN returned :
    returned[d] = Promise =>
      /\ d \notin DOMAIN result
      /\ \A u \in Uuids :
           /\ \A i \in DOMAIN uniqToCli[u] :
                ~(/\ uniqToCli[u][i].command = COMMAND_DELIVER
                  /\ uniqToCli[u][i].delivery = d)
           /\ \A i \in DOMAIN uniqToSrv[u] :
                ~(/\ uniqToSrv[u][i].command = COMMAND_DELIVER
                  /\ uniqToSrv[u][i].delivery = d)
      /\ \A c \in Clients :
           \A i \in DOMAIN queue[c] :
             ~(/\ queue[c][i].msg.command = COMMAND_DELIVER
               /\ queue[c][i].msg.delivery = d)

\* C26: start() on a started server throws and leaves the started flag,
\* the listener and the registries as they are; start() on a server that
\* is not started does not throw and sets the started flag, with which the
\* rendezvous listener exists.
C26_StartOnce ==
  [][(ServerStart \/ ServerStartThrows) =>
       IF is_started
       THEN /\ <<"server", "start">> \in apiError'
            /\ UNCHANGED <<srvVars, chanVars>>
       ELSE /\ is_started'
            /\ apiError' = apiError]_vars

\* start() has been called on a started server.
C26_Witness ==
  is_started /\ <<"server", "start">> \in apiError

C28_DuplicateRejected ==
  [][\A k \in Commands, h \in HandlerIds :
       /\ (AddHandlers("server", k, h) /\ k \in DOMAIN srv_handlers)
          => /\ srv_handlers' = srv_handlers
             /\ <<"server", k>> \in apiError'
       /\ \A c \in Clients :
            (AddHandlers(c, k, h) /\ k \in DOMAIN cli_handlers[c])
            => /\ cli_handlers' = cli_handlers
               /\ <<c, k>> \in apiError']_vars

\* "nop" was registered with h, on the server and on c1, and a second
\* registration of "nop" has been refused on each.
C28_Witness ==
  /\ "nop" \in DOMAIN srv_handlers /\ srv_handlers["nop"] = "h"
  /\ "nop" \in DOMAIN cli_handlers["c1"] /\ cli_handlers["c1"]["nop"] = "h"
  /\ <<"server", "nop">> \in apiError
  /\ <<"c1", "nop">> \in apiError

C30_WriteOnlyConnected ==
  \A c \in Clients :
    (writing[c] = "pending" \/ bcastWriting[c] = "pending") => is_connected[c]

\* c1 has connected its rendezvous socket again after a loss and waits for
\* its unique socket, with a frame in each queue and no write under way.
C30_Witness ==
  /\ drops = 1
  /\ ~is_connected["c1"] /\ bcastSocket["c1"] = "open"
  /\ queue["c1"] # <<>> /\ bcast_queue["c1"] # <<>>
  /\ writing["c1"] # "pending" /\ bcastWriting["c1"] # "pending"

\* C31: each queue of a client has at most one socket write in flight: no
\* write of a queue starts while the callback of an earlier write of that
\* queue is still to come, and the draining flag is set as long as a write
\* is in flight, whatever enqueue calls, losses of the connection and
\* reconnections happen meanwhile.
C31_SingleWrite ==
  \A c \in Clients :
    /\ writing[c] # "double" /\ bcastWriting[c] # "double"
    /\ writing[c] # "none" => emptying_queue[c]
    /\ bcastWriting[c] # "none" => emptying_bcast_queue[c]

\* c1, connected again after a loss, has a write of its unique queue in
\* flight and a second entry waiting behind it.
C31_Witness ==
  /\ drops = 1
  /\ is_connected["c1"]
  /\ writing["c1"] = "pending"
  /\ Len(queue["c1"]) = 2

\* C32: the delivery registry gains the entry delivery id -> originator
\* name exactly when $onServerBcastData routes an emit envelope that
\* carries a delivery id; the entry is removed exactly when
\* $onServerUniqueData forwards the delivery frame of that id to the
\* originator; and no delivery id is forwarded twice.
C32_RegistryLifecycle ==
  [][/\ \A d \in DOMAIN delivery_registry' :
          (d \notin DOMAIN delivery_registry
             \/ delivery_registry'[d] # delivery_registry[d])
          => \E u \in bcast_registry :
               /\ ServerBcastData(u)
               /\ parseEntry(Head(bcastToSrv[u])).command = COMMAND_EMIT
               /\ parseEntry(Head(bcastToSrv[u])).delivery = d
               /\ parseEntry(Head(bcastToSrv[u])).id = delivery_registry'[d]
     /\ \A u \in bcast_registry :
          (/\ ServerBcastData(u)
           /\ parseEntry(Head(bcastToSrv[u])).command = COMMAND_EMIT
           /\ parseEntry(Head(bcastToSrv[u])).delivery # Null)
          => LET message == parseEntry(Head(bcastToSrv[u]))
             IN /\ message.delivery \in DOMAIN delivery_registry'
                /\ delivery_registry'[message.delivery] = message.id
     /\ \A d \in DOMAIN delivery_registry :
          d \notin DOMAIN delivery_registry'
          <=> /\ Len(forwards') = Len(forwards) + 1
              /\ forwards'[Len(forwards')].delivery = d
              /\ forwards'[Len(forwards')].to = delivery_registry[d]
     /\ Len(forwards') > Len(forwards)
          => /\ forwards'[Len(forwards')].delivery \in DOMAIN delivery_registry
             /\ \A i \in DOMAIN forwards :
                  forwards[i].delivery # forwards'[Len(forwards')].delivery
    ]_vars

\* c1 "a" has asked "b" for a delivery; c2 has written two delivery frames
\* with the id, its handler's reply and the one of its application; the
\* server has read both and forwarded one, and c1's deliver() is complete.
C32_Witness ==
  /\ DeliveryName[1] \in DOMAIN asked /\ asked[DeliveryName[1]].name = "b"
  /\ Len(wrote["c2"].unique) >= 2
  /\ \A u \in Uuids : uniqToSrv[u] = <<>>
  /\ forwards = <<[delivery |-> DeliveryName[1], by |-> "b", to |-> "a"]>>
  /\ DeliveryName[1] \in DOMAIN result
  /\ delivery_registry = <<>>

\* C33: in every reachable state of a client isConnected and isConnecting
\* are not both true, and isConnected is true only while the unique socket
\* is open.
C33_StatesExclusive ==
  \A c \in Clients :
    /\ ~(is_connected[c] /\ is_connecting[c])
    /\ is_connected[c] => uniqueSocket[c] = "open"

\* c1 is connected again after a loss of its connection.
C33_Witness ==
  /\ drops >= 1
  /\ is_connected["c1"] /\ ~is_connecting["c1"]
  /\ uniqueSocket["c1"] = "open"

C35_NoReplyToDelivery ==
  [][/\ \A c \in Clients :
          (/\ \E r \in RetValues : ClientUniqueData(c, r)
           /\ parseEntry(Head(uniqToCli[channel_id[c]])).command
                = COMMAND_DELIVER
           /\ parseEntry(Head(uniqToCli[channel_id[c]])).delivery
                \notin deliveries[c])
          => queue'[c] = queue[c]
     /\ \A u \in DOMAIN uuid_registry :
          (/\ \E r \in RetValues : ServerUniqueData(u, r)
           /\ parseEntry(Head(uniqToSrv[u])).command = COMMAND_DELIVER
           /\ parseEntry(Head(uniqToSrv[u])).delivery
                \notin DOMAIN delivery_registry)
          => uniqToCli' = uniqToCli
    ]_vars

\* C37: a discover() does not stay pending for ever while the client is
\* connected and the server is running: as long as its result is pending
\* on a connected client, the discover request is still in the rendezvous
\* queue, or on its way to the server, or the reply is on its way back,
\* also after a loss of the connection that followed the write of the
\* request.
C37_DiscoverUnderWay ==
  \A c \in Clients :
    (is_started /\ is_connected[c] /\ discoverPromise[c] = "pending")
    => \/ \E i \in DOMAIN bcast_queue[c] :
            bcast_queue[c][i].msg.command = COMMAND_DISCOVER
       \/ \E i \in DOMAIN bcastToSrv[bcastPeer[c]] :
            bcastToSrv[bcastPeer[c]][i].command = COMMAND_DISCOVER
       \/ \E i \in DOMAIN bcastToCli[bcastPeer[c]] :
            bcastToCli[bcastPeer[c]][i].command = COMMAND_DISCOVER

\* C38: on every rendezvous connection the first frame the client writes
\* is the handshake with its own name, written by the connect callback and
\* by nothing else, so once per connection; every other frame written on
\* the connection is a discover request or a broadcast or emit envelope,
\* written while the client is connected, its unique socket being open on
\* the channel id that the reply to this connection's handshake carried.
C38_HandshakeFirst ==
  [][\A c \in Clients :
       /\ (bcastSocket[c] = "connecting" /\ bcastSocket'[c] = "open")
            => bcastToSrv'[bcastPeer[c]]
                 = <<prepareMsg2(COMMAND_HANDSHAKE, client_name[c])>>
       /\ (/\ bcastPeer[c] # "none"
           /\ Len(bcastToSrv'[bcastPeer[c]]) > Len(bcastToSrv[bcastPeer[c]]))
            => LET u == bcastPeer[c]
                   f == bcastToSrv'[u][Len(bcastToSrv'[u])]
               IN IF f.command = COMMAND_HANDSHAKE
                  THEN /\ bcastSocket[c] = "connecting"
                       /\ bcastSocket'[c] = "open"
                       /\ bcastToSrv[u] = <<>>
                  ELSE /\ f.command \in {COMMAND_DISCOVER, COMMAND_BROADCAST,
                                          COMMAND_EMIT}
                       /\ bcastSocket[c] = "open"
                       /\ is_connected[c]
                       /\ uniqueSocket[c] = "open"
                       /\ channel_id[c] = u
    ]_vars

\* c1, connected again after a loss, has written an emit envelope on its
\* second rendezvous connection.
C38_Witness ==
  /\ drops = 1
  /\ is_connected["c1"]
  /\ bcastPeer["c1"] = UuidName[2]
  /\ \E i \in DOMAIN bcastToSrv[UuidName[2]] :
       bcastToSrv[UuidName[2]][i].command = COMMAND_EMIT

\* C39: a deliver() addressed to a named client is completed only by a
\* delivery frame of that client: the server forwards to the requester
\* only a delivery frame read from the unique socket of the client the
\* request was addressed to.
C39_ReplyFromCallee ==
  \A i \in DOMAIN forwards :
    forwards[i].delivery \in DOMAIN asked
    => forwards[i].by = asked[forwards[i].delivery].name

\* C40: an addHandlers(collection) call that throws on one entry leaves
\* the handler registry as it was before the call: no other entry of the
\* collection has been registered.
C40_CollectionAtomic ==
  [][\A coll \in Collections :
       /\ (/\ AddHandlerCollection("server", coll)
           /\ addHandlersThrows(srv_handlers, coll))
          => srv_handlers' = srv_handlers
       /\ \A c \in Clients :
            (/\ AddHandlerCollection(c, coll)
             /\ addHandlersThrows(cli_handlers[c], coll))
            => cli_handlers' = cli_handlers]_vars
====
